---- MODULE Spec2Model ----
(***************************************************************************)
(* The DSR session manager and API client of src/scrapers/dsr.js           *)
(* (getSession, scrapeStockOnMarket, clearSession) as a state machine.     *)
(* Every caller is an async invocation of scrapeStockOnMarket on the one   *)
(* JavaScript event loop: code between two awaits is one atomic step, an   *)
(* await is a point where any other caller, the clock, or the provider may *)
(* act.                                                                    *)
(***************************************************************************)
EXTENDS Integers, Sequences, FiniteSets, TLC

\* ------------------------------------------------------------------ bounds

\* Clock advances allowed in one behaviour.
MaxTicks == 2

\* Browsing contexts (login sequences) opened in one behaviour.
MaxLogins == 2

\* Browser processes launched in one behaviour.
MaxLaunches == 3

\* Concurrent invocations of scrapeStockOnMarket.
Procs == {"a", "b"}

\* --------------------------------------------------------------- constants

\* dsr.js:40, in milliseconds.
SESSION_TTL == 25 * 60 * 1000

\* How far one clock advance moves Date.now(): half the TTL, so that a session
\* is met in the middle of its window and at the very instant it expires.
TickSteps == {SESSION_TTL \div 2}

\* A local accessToken that is null (dsr.js:58). A token is known by the login
\* sequence whose page carried it and by the place it was read from.
NoToken == [login |-> 0, src |-> "none"]

\* cachedSession = null (dsr.js:38) and a local that holds no session.
\* A session is known by the login sequence that built it (login), the one whose
\* page carried its token (accessToken) and the one whose jar gave its cookies.
NoSession == [login |-> 0, accessToken |-> 0, cookies |-> 0]

\* scrapeStockOnMarket has not returned yet.
NoResult == [success |-> FALSE, error |-> "pending", data |-> "none"]

\* The fallback sources of getSession in the order the code consults them.
FallbackChain == <<"search", "script", "url", "script2">>

\* HTTP statuses the provider answers with.
Statuses == {200, 401, 403, 500}

\* What response.json() yields for a 2xx answer.
Payloads == {"malformed", "noStats", "stats"}

VARIABLES
    now,            \* Date.now()
    ticks,          \* clock advances so far
    cachedSession,  \* dsr.js:38
    sessionExpiry,  \* dsr.js:39
    nLogins,        \* browsing contexts created so far (the id of the last one)
    openCtx,        \* browsing contexts created and not closed
    pc,             \* per caller: where its invocation is suspended
    attempt,        \* per caller: 0 idle, 1 first getSession/fetch, 2 the retry
    ctx,            \* per caller: the context of its login sequence, 0 if none
    accessToken,    \* per caller: getSession's local accessToken (dsr.js:58)
    tried,          \* per caller: fallback sources its login consulted, in order
    jar,            \* per caller: what context.cookies() showed of JSESSIONID
    gsError,        \* per caller: the error getSession is about to throw, or "none"
    session,        \* per caller: the local session / newSession
    fromCache,      \* per caller: its last getSession was served from the cache
    reqs,           \* per caller: HTTP requests issued by this invocation
    sent,           \* per caller: what each of these requests carried, in order
    statuses,       \* per caller: response statuses received by this invocation
    reauths,        \* per caller: forced getSession calls (dsr.js:228) so far
    body,           \* per caller: what response.json() made of the body
    result,         \* per caller: what scrapeStockOnMarket returned
    acquired,       \* history: the last session stored and when it was stored
    denied,         \* history: the cached session's last use was answered 401/403
    prevRet,        \* history: the session the last completed getSession returned,
                    \* 0 if it threw or the cache was invalidated since
    raw,            \* the raw payload handed to formatResponse (dsr.js:283)
    formatted,      \* what formatResponse made of raw, call after call, each
                    \* with the session cache as it was at the call
    addresses,      \* scrapeComparables: its argument
    cmpPc,          \* scrapeComparables: where the invocation is suspended
    idx,            \* scrapeComparables: the position of the loop in addresses
    results,        \* scrapeComparables: the local results
    shown,          \* scrapeComparables: the address whose detail the page shows
    cmpCtx,         \* scrapeComparables: browsing contexts the batch created
    cmpLogins,      \* scrapeComparables: calls of loginToCoreLogic by the batch
    cmpRet,         \* scrapeComparables: what the invocation settled with
    failed,         \* history: positions whose search or extraction failed
    propPc,         \* scrapeProperty: where the invocation is suspended
    propPage,       \* scrapeProperty: the address whose detail the page shows
    data,           \* scrapeProperty: the local data
    propRet,        \* scrapeProperty: what the invocation settled with
    pageHas,        \* history: what the property page held when it was read
    propHist,       \* history: how far login, search inputs and detail got
    browser,        \* browser.js:3, the shared browser: its id, 0 for null
    live,           \* the browser processes launched and still connected
    nLaunched,      \* browser processes launched so far (the id of the last one)
    brPc,           \* per request: where its use of a browser is suspended
    held,           \* per request: the browser it works with, 0 if none
    srvPc,          \* server.js: where the route handler is suspended
    skipAiText,     \* server.js:31, the flag of the suburb request
    dsrResult,      \* server.js:44
    aiResult,       \* server.js:49-56
    aiCalls,        \* history: calls of generateSuburbText by this request
    failures,       \* history: the sources that failed for this request
    response,       \* the response sent: its status and body
    apiKey,         \* auth.js:7, process.env.API_KEY
    authPc,         \* auth.js: where the request is in the middleware
    headers,        \* auth.js:13-14, the two headers of the request
    nextCalls,      \* history: calls of next() for the request
    authStatus,     \* the status authMiddleware answered with, 0 if none
    args,           \* dsr.js:256, the arguments of buildApiUrl
    url,            \* dsr.js:268, the URL built from them, <<>> before
    race,           \* dsr.js:79-83, the post-login wait: its signals and outcome
    capture,        \* dsr.js:58-181, the token capture: the page and what it gave
    sqmCall         \* per request: a call of scrapeSqmVacancy, its browser and context

dsrVars == <<now, ticks, cachedSession, sessionExpiry, nLogins, openCtx, pc, attempt,
             ctx, accessToken, tried, jar, gsError, session, fromCache, reqs, sent,
             statuses, reauths, body, result, acquired, denied, prevRet>>

fmtVars == <<raw, formatted>>

cmpVars == <<addresses, cmpPc, idx, results, shown, cmpCtx, cmpLogins, cmpRet, failed>>

propVars == <<propPc, propPage, data, propRet, pageHas, propHist>>

brVars == <<browser, live, nLaunched, brPc, held>>

\* The state of the modules around the scrapers.
srvVars == <<srvPc, skipAiText, dsrResult, aiResult, aiCalls, failures, response>>

authVars == <<apiKey, authPc, headers, nextCalls, authStatus>>

urlVars == <<args, url>>

\* The state of the single steps of the scrapers that are modelled on their own.
lateVars == <<race, capture, sqmCall>>

extVars == <<brVars, srvVars, authVars, urlVars, lateVars>>

\* The state of the scrapers, which the modules around them leave alone.
OtherVars == <<dsrVars, fmtVars, cmpVars, propVars>>

\* What the browser module and what the routes leave alone.
beyondBr == <<OtherVars, srvVars, authVars, urlVars, lateVars>>
beyondSrv == <<OtherVars, brVars, authVars, urlVars, lateVars>>
beyondAuth == <<OtherVars, brVars, srvVars, urlVars, lateVars>>
beyondUrl == <<OtherVars, brVars, srvVars, authVars, lateVars>>
beyondLate == <<OtherVars, brVars, srvVars, authVars, urlVars>>
beyondRace == <<beyondLate, capture, sqmCall>>
beyondCapture == <<beyondLate, race, sqmCall>>
beyondSqm == <<beyondLate, race, capture>>

\* What the session manager and the API client never touch.
restVars == <<fmtVars, cmpVars, propVars, extVars>>

vars == <<dsrVars, restVars>>

cacheVars == <<cachedSession, sessionExpiry>>
loginVars == <<ctx, accessToken, tried, jar, gsError>>
callVars == <<attempt, session, fromCache, reqs, sent, statuses, reauths, body,
              result>>
histVars == <<acquired, denied, prevRet>>
clockVars == <<now, ticks>>

TypeOK ==
    /\ now \in Nat /\ ticks \in 0..MaxTicks
    /\ nLogins \in 0..MaxLogins
    /\ openCtx \subseteq 1..MaxLogins
    /\ cachedSession.login \in 0..MaxLogins
    /\ sessionExpiry \in Nat
    /\ \A p \in Procs : attempt[p] \in 0..2 /\ ctx[p] \in 0..MaxLogins

DsrInit ==
    /\ now = 0 /\ ticks = 0
    /\ cachedSession = NoSession
    /\ sessionExpiry = 0
    /\ nLogins = 0
    /\ openCtx = {}
    /\ pc = [p \in Procs |-> "idle"]
    /\ attempt = [p \in Procs |-> 0]
    /\ ctx = [p \in Procs |-> 0]
    /\ accessToken = [p \in Procs |-> NoToken]
    /\ tried = [p \in Procs |-> <<>>]
    /\ jar = [p \in Procs |-> "unread"]
    /\ gsError = [p \in Procs |-> "none"]
    /\ session = [p \in Procs |-> NoSession]
    /\ fromCache = [p \in Procs |-> FALSE]
    /\ reqs = [p \in Procs |-> 0]
    /\ sent = [p \in Procs |-> <<>>]
    /\ statuses = [p \in Procs |-> <<>>]
    /\ reauths = [p \in Procs |-> 0]
    /\ body = [p \in Procs |-> "none"]
    /\ result = [p \in Procs |-> NoResult]
    /\ acquired = [login |-> 0, at |-> 0]
    /\ denied = FALSE
    /\ prevRet = 0

\* ------------------------------------------------------------ pure helpers

\* The cache test with its comparison turned round.
CacheHitInverted(cs, expiry) == cs # NoSession /\ now > expiry

\* The cache test serving a session at the very instant it expires.
CacheHitInclusive(cs, expiry) == cs # NoSession /\ now <= expiry

\* dsr.js:51, the test that serves a call from the cache.
CacheHit(cs, expiry) == cs # NoSession /\ now < expiry

\* Every client or server error taken for an expired session.
AuthDeniedAnyError(status) == status >= 400

\* dsr.js:223, the statuses handled as an expired session.
AuthDenied(status) == status = 401 \/ status = 403

\* fetch's response.ok (dsr.js:240): a 2xx status.
ResponseOk(status) == status >= 200 /\ status <= 299

\* dsr.js:241, the message of the error thrown for a response that is not ok.
StatusError(status) ==
    CASE status = 401 -> "DSR API returned 401"
      [] status = 403 -> "DSR API returned 403"
      [] status = 500 -> "DSR API returned 500"
      [] OTHER -> "DSR API returned"

\* A catch that logs the error and throws it on: the invocation is rejected.
Rejection(msg) == [success |-> FALSE, error |-> msg, data |-> "thrown"]

\* dsr.js:246-249, the catch of scrapeStockOnMarket turns any error into a value.
Failure(msg) == [success |-> FALSE, error |-> msg, data |-> "none"]

\* ----------------------------------------------- JavaScript values (dsr.js)

\* A JavaScript value of the payload: undefined, NaN, a finite number (v, in
\* hundredths, so 0.95 is 95) or a string (s, its characters in order).
Undefined == [t |-> "undefined", v |-> 0, s |-> <<>>]
NaN == [t |-> "NaN", v |-> 0, s |-> <<>>]
Num(h) == [t |-> "number", v |-> h, s |-> <<>>]
Str(cs) == [t |-> "string", v |-> 0, s |-> cs]

\* The decimal digits as characters.
DigitChars == <<"0", "1", "2", "3", "4", "5", "6", "7", "8", "9">>

IsDigit(c) == \E d \in 1..10 : DigitChars[d] = c

DigitValue(c) == (CHOOSE d \in 1..10 : DigitChars[d] = c) - 1

IsSpace(c) == c = " "

Abs(n) == IF n < 0 THEN -n ELSE n

\* The decimal digits of a natural number, most significant first.
RECURSIVE NatChars(_)
NatChars(n) ==
    IF n < 10 THEN <<DigitChars[n + 1]>>
    ELSE NatChars(n \div 10) \o <<DigitChars[(n % 10) + 1]>>

\* The number of leading characters of cs that are digits.
RECURSIVE DigitRun(_)
DigitRun(cs) ==
    IF cs # <<>> /\ IsDigit(Head(cs)) THEN 1 + DigitRun(Tail(cs)) ELSE 0

\* The value of a sequence of digits.
RECURSIVE DigitsValue(_)
DigitsValue(ds) ==
    IF ds = <<>> THEN 0
    ELSE 10 * DigitsValue(SubSeq(ds, 1, Len(ds) - 1)) + DigitValue(ds[Len(ds)])

\* cs without its leading (trailing) white space.
RECURSIVE TrimLeft(_)
TrimLeft(cs) == IF cs # <<>> /\ IsSpace(Head(cs)) THEN TrimLeft(Tail(cs)) ELSE cs

RECURSIVE TrimRight(_)
TrimRight(cs) ==
    IF cs # <<>> /\ IsSpace(cs[Len(cs)])
    THEN TrimRight(SubSeq(cs, 1, Len(cs) - 1))
    ELSE cs

\* The longest decimal literal that cs starts with (sign, digits, point,
\* digits): ok when it has a digit, used the characters it took, h its value in
\* hundredths. Literals of the payloads have at most two decimals.
DecimalPrefix(cs) ==
    LET signed == cs # <<>> /\ Head(cs) \in {"-", "+"}
        unsigned == IF signed THEN Tail(cs) ELSE cs
        ni == DigitRun(unsigned)
        rest == SubSeq(unsigned, ni + 1, Len(unsigned))
        point == rest # <<>> /\ Head(rest) = "."
        nf == IF point THEN DigitRun(Tail(rest)) ELSE 0
        frac == IF point THEN SubSeq(rest, 2, nf + 1) ELSE <<>>
        cents == DigitsValue(SubSeq(frac \o <<"0", "0">>, 1, 2))
        mag == 100 * DigitsValue(SubSeq(unsigned, 1, ni)) + cents
    IN [ok |-> ni + nf > 0,
        used |-> (IF signed THEN 1 ELSE 0) + ni + (IF point /\ (ni + nf > 0) THEN 1 + nf ELSE 0),
        h |-> IF signed /\ Head(cs) = "-" THEN -mag ELSE mag]

\* String(x) for a number: the shortest decimal, "36", "1.5", "-0.56".
NumberToString(h) ==
    LET a == Abs(h)
        int == NatChars(a \div 100)
        frac == IF a % 100 = 0 THEN <<>>
                ELSE IF a % 10 = 0 THEN <<".", DigitChars[((a % 100) \div 10) + 1]>>
                ELSE <<".", DigitChars[((a % 100) \div 10) + 1], DigitChars[(a % 10) + 1]>>
    IN (IF h < 0 THEN <<"-">> ELSE <<>>) \o int \o frac

\* String(x), also what x + "%" makes of x.
StringOf(x) ==
    CASE x.t = "undefined" -> <<"u", "n", "d", "e", "f", "i", "n", "e", "d">>
      [] x.t = "NaN" -> <<"N", "a", "N">>
      [] x.t = "number" -> NumberToString(x.v)
      [] OTHER -> x.s

\* parseFloat(x): the argument is turned into a string, leading white space
\* is skipped and the longest decimal literal at the front is the value; NaN
\* when there is none.
parseFloat(x) ==
    LET d == DecimalPrefix(TrimLeft(StringOf(x)))
    IN IF d.ok THEN Num(d.h) ELSE NaN

\* Number(x), the conversion the comparison operators apply too: the whole
\* trimmed string has to be a literal, the empty string is 0, undefined is NaN.
ToNumber(x) ==
    CASE x.t = "undefined" -> NaN
      [] x.t = "string" ->
            LET cs == TrimRight(TrimLeft(x.s))
                d == DecimalPrefix(cs)
            IN IF cs = <<>> THEN Num(0)
               ELSE IF d.ok /\ d.used = Len(cs) THEN Num(d.h) ELSE NaN
      [] OTHER -> x

\* n || 0 for a number n: NaN and 0 are falsy.
OrZero(n) == IF n.t = "number" THEN n.v ELSE 0

\* n.toFixed(2) for a number n.
toFixed2(n) ==
    IF n.t # "number" THEN StringOf(NaN)
    ELSE LET a == Abs(n.v)
         IN (IF n.v < 0 THEN <<"-">> ELSE <<>>)
            \o NatChars(a \div 100)
            \o <<".", DigitChars[((a % 100) \div 10) + 1], DigitChars[(a % 10) + 1]>>

\* The digits ds with a comma before every group of three from the right.
RECURSIVE Grouped(_)
Grouped(ds) ==
    IF Len(ds) <= 3 THEN ds
    ELSE Grouped(SubSeq(ds, 1, Len(ds) - 3)) \o <<",">> \o SubSeq(ds, Len(ds) - 2, Len(ds))

\* A number printed without grouping.
toLocalePlain(n) == IF n.t # "number" THEN StringOf(NaN) ELSE NumberToString(n.v)

\* n.toLocaleString() in the runtime's default locale, en-US: the integer part
\* in groups of three, the decimals as String gives them.
toLocaleString(n) ==
    IF n.t # "number" THEN StringOf(NaN)
    ELSE LET a == Abs(n.v)
             plain == NumberToString(a)
             ni == DigitRun(plain)
         IN (IF n.v < 0 THEN <<"-">> ELSE <<>>)
            \o Grouped(SubSeq(plain, 1, ni)) \o SubSeq(plain, ni + 1, Len(plain))

\* x >= k for a number k given in hundredths; false when x is not a number.
AtLeast(x, k) == LET n == ToNumber(x) IN n.t = "number" /\ n.v >= k

\* A test for missing stats that looks at the innermost property alone.
NoStatsInnermost(json) == json.shape \in {"noStats", "nullStats"}

\* !stats (dsr.js:284-286): json?.response?.all_mkt_stats is undefined or null
\* when json, its response or the stats are missing or null.
NoStats(json) == json.shape # "stats"

\* The stock rating with its first threshold open.
stockRatingOpen(s) == IF s < 150 THEN "Low" ELSE IF s <= 300 THEN "Average" ELSE "High"

\* dsr.js:299, the rating of stock on market (s in hundredths of a percent).
stockRating(s) == IF s <= 150 THEN "Low" ELSE IF s <= 300 THEN "Average" ELSE "High"

\* dsr.js:302, the rating of days on market (d in hundredths of a day).
domRating(d) == IF d <= 2500 THEN "Fast" ELSE IF d <= 4500 THEN "Average" ELSE "Slow"

\* dsr.js:307, the rating of the vacancy rate.
vacancyRating(v) == IF v <= 200 THEN "Low" ELSE IF v <= 300 THEN "Average" ELSE "High"

\* The yield rating with its first threshold open.
yieldRatingOpen(x) ==
    IF AtLeast(x, 501) THEN "Strong" ELSE IF AtLeast(x, 300) THEN "Average" ELSE "Low"

\* dsr.js:310, the rating of the yield, compared as the payload gives it.
yieldRating(x) ==
    IF AtLeast(x, 500) THEN "Strong" ELSE IF AtLeast(x, 300) THEN "Average" ELSE "Low"

\* dsr.js:294-323, the MarketStats record built from the stats object.
MarketStats(json) ==
    LET stats == json.stats
        stockOnMarket == OrZero(parseFloat(stats.SOM_PERC))
        vacancy == OrZero(parseFloat(stats.VACANCY))
        dom == OrZero(parseFloat(stats.DOM))
    IN [stock_on_market |-> toFixed2(parseFloat(stats.SOM_PERC)) \o <<"%">>,
        stock_rating |-> stockRating(stockOnMarket),
        days_on_market |-> StringOf(stats.DOM),
        dom_rating |-> domRating(dom),
        vendor_discounting |-> toFixed2(parseFloat(stats.DISCOUNT)) \o <<"%">>,
        vacancy_rate |-> toFixed2(parseFloat(stats.VACANCY)) \o <<"%">>,
        vacancy_rating |-> vacancyRating(vacancy),
        gross_rental_yield |-> toFixed2(parseFloat(stats.YIELD)) \o <<"%">>,
        yield_rating |-> yieldRating(stats.YIELD),
        dsr_score |-> StringOf(stats.DSR),
        median_12_months |-> <<"$">> \o toLocaleString(ToNumber(stats.MEDIAN_12)),
        typical_value |-> <<"$">> \o toLocaleString(ToNumber(stats.TV)),
        renters_percentage |-> StringOf(stats.RENTERS) \o <<"%">>,
        auction_clearance_rate |-> StringOf(stats.ACR) \o <<"%">>,
        online_search_interest |-> StringOf(stats.OSI),
        statistical_reliability |-> StringOf(stats.SR),
        data_month |-> json.month,
        data_year |-> json.year]

\* A normalizer that gives up while no session is cached.
formatResponseCached(json) ==
    IF NoStats(json) \/ cachedSession = NoSession
    THEN [success |-> FALSE, error |-> "No stats in DSR response"]
    ELSE [success |-> TRUE, data |-> MarketStats(json)]

\* dsr.js:283-325: a payload without all_mkt_stats is a failure value, any
\* other becomes a MarketStats record.
formatResponse(json) ==
    IF NoStats(json)
    THEN [success |-> FALSE, error |-> "No stats in DSR response"]
    ELSE [success |-> TRUE, data |-> MarketStats(json)]

\* The stats of the sample response in the comment of dsr.js:275-281.
SampleStats ==
    [ACR |-> Num(9510), DSR |-> Num(4800), TV |-> Num(212530000),
     RENTERS |-> Num(2000), DOM |-> Num(3600), OSI |-> Num(4500),
     YIELD |-> Num(241), SOM_PERC |-> Str(<<".", "9", "5">>),
     VACANCY |-> Num(132), MEDIAN_12 |-> Num(192661000), SR |-> Num(6800),
     DISCOUNT |-> Str(<<"-", ".", "5", "6">>)]

\* A payload: shape tells how far json?.response?.all_mkt_stats gets.
Payload(shape, stats) ==
    [shape |-> shape, stats |-> stats, month |-> "month", year |-> "year"]

\* The JSON bodies the API client's responses stand for.
PayloadJson(kind) ==
    IF kind = "stats" THEN Payload("stats", SampleStats)
    ELSE Payload("noStats", SampleStats)

\* What the API client's caller sees of a normalized result.
Summary(res) ==
    IF res.success
    THEN [success |-> TRUE, error |-> "none", data |-> "MarketStats"]
    ELSE Failure(res.error)

\* Nothing has been handed to formatResponse.
FmtIdle == raw = Payload("null", SampleStats) /\ formatted = <<>>

\* corelogic.js is src/unnamed/part_001. What scrapeProperty and
\* scrapeComparables have settled with while they are pending.
Pending == [state |-> "pending", success |-> FALSE, error |-> "none"]
CmpPending == [state |-> "pending", success |-> FALSE, error |-> "none", data |-> <<>>]

\* corelogic.js:276, the empty results of a batch.
NoResults == <<>>

\* corelogic.js:167-179 and 183-187, a record with every field empty.
EmptyData ==
    [bedrooms |-> "", bathrooms |-> "", car_spaces |-> "", land_size |-> "",
     floor_area |-> "", year_built |-> "", property_type |-> "",
     listing_description |-> "", sold_price |-> "", sold_date |-> "",
     schools |-> <<>>, valuation_estimate |-> "", rental_low |-> "",
     rental_mid |-> "", rental_high |-> "", rental_yield |-> "",
     market_status |-> ""]

\* A page on which nothing was looked for.
NothingRead ==
    [attrs |-> {}, main |-> {}, desc |-> FALSE, sale |-> "none", schools |-> FALSE,
     tabs |-> <<>>, err |-> 0, valuation |-> FALSE, rental |-> {},
     activated |-> {}]

\* scrapeComparables has not been called with anything but the empty batch.
CmpIdle ==
    /\ addresses = <<>>
    /\ cmpPc = "idle" /\ idx = 0 /\ results = NoResults /\ shown = "blank"
    /\ cmpCtx = 0 /\ cmpLogins = 0 /\ cmpRet = CmpPending /\ failed = {}

\* scrapeProperty has not been called.
PropIdle ==
    /\ propPc = "idle" /\ propPage = "blank" /\ data = EmptyData
    /\ propRet = Pending /\ pageHas = NothingRead
    /\ propHist = [login |-> FALSE, inputs |-> FALSE, detail |-> FALSE]

\* browser.js:3: no browser has been launched and no request is under way.
BrIdle ==
    /\ browser = 0 /\ live = {} /\ nLaunched = 0
    /\ brPc = [r \in Procs |-> "idle"] /\ held = [r \in Procs |-> 0]

\* server.js:49, the narrative result a request starts with, and what a
\* failed one is replaced by (server.js:55).
EmptyAiResult == [success |-> TRUE, error |-> "none", data |-> <<>>]

NoResponse == [status |-> 0, body |-> <<>>]

\* No request is being handled.
SrvIdle ==
    /\ srvPc = "idle" /\ skipAiText = FALSE
    /\ dsrResult = NoResult /\ aiResult = EmptyAiResult
    /\ aiCalls = 0 /\ failures = {} /\ response = NoResponse

NoHeaders == [xApiKey |-> Undefined, authorization |-> Undefined]

\* No request is in the middleware.
NoRequest == authPc = "idle" /\ headers = NoHeaders /\ nextCalls = 0 /\ authStatus = 0

\* auth.js:7: API_KEY is not set.
AuthIdle == apiKey = Undefined /\ NoRequest

NoArgs == [token |-> <<>>, suburb |-> <<>>, state |-> <<>>, postcode |-> <<>>]

\* buildApiUrl has not been called.
UrlIdle == args = NoArgs /\ url = <<>>

\* dsr.js:80-82, the timeouts of the two waits and the fixed wait, in
\* milliseconds.
URL_TIMEOUT == 15000
HIDDEN_TIMEOUT == 15000
MAX_WAIT == 5000

\* A signal that never comes: a time past every timeout.
Never == 4 * URL_TIMEOUT

\* The post-login wait has not begun.
RaceIdle ==
    race = [pc |-> "idle", clock |-> 0, urlAt |-> Never, hiddenAt |-> Never,
            winner |-> "none", at |-> 0]

\* accessToken = null (dsr.js:58), as a capture that found nothing.
NoCapture == [found |-> FALSE, value |-> <<>>, source |-> "none"]

\* A page without any text that mentions a token.
NoPage == [request |-> <<>>, window |-> <<>>, form |-> "assign", script |-> <<>>,
           url |-> <<>>]

\* No token capture has been run.
CaptureIdle == capture = [pc |-> "idle", page |-> NoPage, token |-> NoCapture]

\* sqm-vacancy.js:15-18 (src/unnamed/part_000): no call is under way.
NoSqmCall ==
    [pc |-> "idle", existingBrowser |-> FALSE, ownBrowser |-> FALSE,
     callerOpen |-> FALSE, ownOpen |-> FALSE, context |-> "none",
     rate |-> "none", ret |-> "none"]

SqmIdle == sqmCall = [r \in Procs |-> NoSqmCall]

LateIdle == RaceIdle /\ CaptureIdle /\ SqmIdle

ExtIdle == BrIdle /\ SrvIdle /\ AuthIdle /\ UrlIdle /\ LateIdle

\* The state after the modules are loaded.
Init == DsrInit /\ FmtIdle /\ CmpIdle /\ PropIdle /\ ExtIdle

\* dsr.js:183-187, the session object built from one login's token and jar.
NewSession(p, token) ==
    [login |-> ctx[p], accessToken |-> token.login, cookies |-> ctx[p]]

\* The token a page of login sequence k yields when read from src.
Token(k, src) == [login |-> k, src |-> src]

\* The arguments of the two invocations: each caller asks for a suburb of its
\* own (dsr.js:205).
Arguments(p) ==
    IF p = "a"
    THEN [suburb |-> "Sydney", state |-> "NSW", postcode |-> "2000"]
    ELSE [suburb |-> "Perth", state |-> "WA", postcode |-> "6000"]

\* dsr.js:209-220 and dsr.js:229-237: what a stats request carries: the token
\* in its URL, the Cookie header, and the location its URL was built from.
ApiRequest(s, location) ==
    [accessToken |-> s.accessToken, cookies |-> s.cookies, location |-> location]

\* A retry that sends the first request once more, as it was.
SendFirstAgain(p, s) ==
    sent' = [sent EXCEPT ![p] =
                IF @ = <<>> THEN <<ApiRequest(s, Arguments(p))>> ELSE Append(@, @[1])]

\* dsr.js:214 and dsr.js:231: the request built from session s is issued.
Send(p, s) ==
    sent' = [sent EXCEPT ![p] = Append(@, ApiRequest(s, Arguments(p)))]

\* ------------------------------------------------------- action fragments

\* getSession returns at dsr.js:52 and scrapeStockOnMarket goes on to build the
\* URL and issue the request (dsr.js:209-220).
ServeFromCache(p, cs) ==
    /\ pc' = [pc EXCEPT ![p] = "fetch"]
    /\ session' = [session EXCEPT ![p] = cs]
    /\ fromCache' = [fromCache EXCEPT ![p] = TRUE]
    /\ reqs' = [reqs EXCEPT ![p] = @ + 1]
    /\ Send(p, cs)
    /\ prevRet' = cs.login

\* getSession goes past the cache test and awaits getPage() (dsr.js:55).
BeginLogin(p) ==
    /\ pc' = [pc EXCEPT ![p] = "getPage"]
    /\ session' = [session EXCEPT ![p] = NoSession]
    /\ fromCache' = [fromCache EXCEPT ![p] = FALSE]
    /\ reqs' = reqs
    /\ sent' = sent

\* An error reaches the catch of scrapeStockOnMarket (dsr.js:246-249).
Fail(p, msg) ==
    /\ pc' = [pc EXCEPT ![p] = "done"]
    /\ result' = [result EXCEPT ![p] = Failure(msg)]

\* dsr.js:183-191: the session is stored, then the finally block awaits
\* context.close().
Store(p, token) ==
    /\ cachedSession' = NewSession(p, token)
    /\ sessionExpiry' = now + SESSION_TTL
    /\ session' = [session EXCEPT ![p] = NewSession(p, token)]
    /\ acquired' = [login |-> ctx[p], at |-> now]
    /\ denied' = FALSE
    /\ pc' = [pc EXCEPT ![p] = "close"]

\* getSession throws inside its try: catch rethrows, finally closes the context.
Throw(p, msg) ==
    /\ gsError' = [gsError EXCEPT ![p] = msg]
    /\ pc' = [pc EXCEPT ![p] = "close"]

\* An invalidation that forgets to clear the cache.
InvalidateNothing == UNCHANGED <<cachedSession, sessionExpiry>>

\* An invalidation that resets the expiry and keeps the session object.
InvalidateExpiryOnly ==
    /\ cachedSession' = cachedSession
    /\ sessionExpiry' = 0

\* An invalidation that drops the session object and keeps its expiry.
InvalidateSessionOnly ==
    /\ cachedSession' = NoSession
    /\ sessionExpiry' = sessionExpiry

\* dsr.js:225-226 and dsr.js:329-330.
Invalidate ==
    /\ cachedSession' = NoSession
    /\ sessionExpiry' = 0

\* The record of the last stored session is dropped when the cache is emptied.
Forget(acq, cs) == IF cs = NoSession THEN [login |-> 0, at |-> 0] ELSE acq

\* getSession's frame is gone: its locals with it.
LeaveGetSession(p) ==
    /\ ctx' = [ctx EXCEPT ![p] = 0]
    /\ accessToken' = [accessToken EXCEPT ![p] = NoToken]
    /\ tried' = [tried EXCEPT ![p] = <<>>]
    /\ jar' = [jar EXCEPT ![p] = "unread"]
    /\ gsError' = [gsError EXCEPT ![p] = "none"]

\* A missing JSESSIONID made fatal only when no token was captured either.
CookieMissingUnlessToken(jsession, token) == ~jsession /\ token = NoToken

\* dsr.js:159, the test that makes a jar without JSESSIONID fatal.
CookieMissing(jsession, token) == ~jsession

\* The denial test applied to the retry's response as well (a retry loop).
ShouldReauthAlways(att, status) == AuthDenied(status)

\* dsr.js:222-223: straight-line code, so only the first response of an
\* invocation is tested for an authorization denial.
ShouldReauth(att, status) == att = 1 /\ AuthDenied(status)

\* The page of a login sequence is alive and its request listener
\* (dsr.js:61-68) can still change what the sequence stores.
Listening(p) == pc[p] \in {"login", "postLogin", "search", "script", "cookies", "script2"}

\* ------------------------------------------------------------------ actions

\* An entry that renews the expiry of the session it serves from the cache.
CallRefreshing(p) ==
    /\ pc[p] = "idle"
    /\ attempt' = [attempt EXCEPT ![p] = 1]
    /\ IF CacheHit(cachedSession, sessionExpiry)
       THEN /\ ServeFromCache(p, cachedSession)
            /\ sessionExpiry' = now + SESSION_TTL
            /\ UNCHANGED cachedSession
       ELSE BeginLogin(p) /\ UNCHANGED <<prevRet, cacheVars>>
    /\ UNCHANGED <<clockVars, nLogins, openCtx, loginVars, statuses,
                   reauths, body, result, acquired, denied>>
    /\ UNCHANGED restVars

\* scrapeStockOnMarket is invoked (dsr.js:205-207) and getSession runs up to
\* its first await (dsr.js:49-55).
Call(p) ==
    /\ pc[p] = "idle"
    /\ attempt' = [attempt EXCEPT ![p] = 1]
    /\ IF CacheHit(cachedSession, sessionExpiry)
       THEN ServeFromCache(p, cachedSession)
       ELSE BeginLogin(p) /\ UNCHANGED prevRet
    /\ UNCHANGED <<clockVars, cacheVars, nLogins, openCtx, loginVars, statuses,
                   reauths, body, result, acquired, denied>>
    /\ UNCHANGED restVars

\* getPage() resolves (browser.js:20-40): a new context and page.
GetPageOk(p) ==
    /\ pc[p] = "getPage"
    /\ nLogins < MaxLogins
    /\ nLogins' = nLogins + 1
    /\ openCtx' = openCtx \cup {nLogins + 1}
    /\ ctx' = [ctx EXCEPT ![p] = nLogins + 1]
    /\ pc' = [pc EXCEPT ![p] = "login"]
    /\ UNCHANGED <<clockVars, cacheVars, accessToken, tried, jar, gsError, callVars,
                   histVars>>
    /\ UNCHANGED restVars

\* getPage() rejects. dsr.js:55 is outside the try, so nothing is closed: with
\* leak, the context had been created (browser.js:22) before newPage or route
\* failed; without, the launch or newContext failed.
GetPageFail(p, leak) ==
    /\ pc[p] = "getPage"
    /\ IF leak
       THEN /\ nLogins < MaxLogins
            /\ nLogins' = nLogins + 1
            /\ openCtx' = openCtx \cup {nLogins + 1}
       ELSE UNCHANGED <<nLogins, openCtx>>
    /\ Fail(p, "getPage failed")
    /\ prevRet' = 0
    /\ UNCHANGED <<clockVars, cacheVars, loginVars, attempt, session, fromCache,
                   reqs, sent, statuses, reauths, body, acquired, denied>>
    /\ UNCHANGED restVars

\* A listener shared by all pages: it hears a request of any open context.
OnRequestAnyPage(p) ==
    /\ Listening(p)
    /\ accessToken[p] = NoToken
    /\ \E k \in openCtx :
          accessToken' = [accessToken EXCEPT ![p] =
                             Token(k, IF pc[p] = "search" THEN "search" ELSE "request")]
    /\ UNCHANGED <<clockVars, cacheVars, nLogins, openCtx, pc, ctx, tried, jar,
                   gsError, callVars, histVars>>
    /\ UNCHANGED restVars

\* The request listener sees a request that carries the token (dsr.js:61-68).
OnRequest(p) ==
    /\ Listening(p)
    /\ accessToken[p] = NoToken
    /\ accessToken' = [accessToken EXCEPT ![p] =
                          Token(ctx[p], IF pc[p] = "search" THEN "search" ELSE "request")]
    /\ UNCHANGED <<clockVars, cacheVars, nLogins, openCtx, pc, ctx, tried, jar,
                   gsError, callVars, histVars>>
    /\ UNCHANGED restVars

\* dsr.js:71-75: the login page is loaded, filled in and submitted, or one of
\* these steps throws (login UI not found).
Login(p, ok) ==
    /\ pc[p] = "login"
    /\ IF ok
       THEN pc' = [pc EXCEPT ![p] = "postLogin"] /\ UNCHANGED gsError
       ELSE Throw(p, "login failed")
    /\ UNCHANGED <<clockVars, cacheVars, nLogins, openCtx, ctx, accessToken, tried,
                   jar, callVars, histVars>>
    /\ UNCHANGED restVars

\* dsr.js:79-95: the race of the three post-login signals never throws; the
\* navigation to the suburb analyser may. Then the first fallback is consulted
\* if the listener has seen no token (dsr.js:95), else the code runs on to
\* context.cookies() (dsr.js:156).
PostLogin(p, ok) ==
    /\ pc[p] = "postLogin"
    /\ IF ~ok
       THEN Throw(p, "navigation failed") /\ UNCHANGED tried
       ELSE /\ UNCHANGED gsError
            /\ IF accessToken[p] = NoToken
               THEN /\ pc' = [pc EXCEPT ![p] = "search"]
                    /\ tried' = [tried EXCEPT ![p] = Append(@, "search")]
               ELSE /\ pc' = [pc EXCEPT ![p] = "cookies"]
                    /\ UNCHANGED tried
    /\ UNCHANGED <<clockVars, cacheVars, nLogins, openCtx, ctx, accessToken, jar,
                   callVars, histVars>>
    /\ UNCHANGED restVars

\* dsr.js:96-125: the in-app search ends (its errors are caught at dsr.js:119);
\* a token, if any, came through the listener. Without one the page scripts
\* are scanned next (dsr.js:127).
Search(p) ==
    /\ pc[p] = "search"
    /\ IF accessToken[p] = NoToken
       THEN /\ pc' = [pc EXCEPT ![p] = "script"]
            /\ tried' = [tried EXCEPT ![p] = Append(@, "script")]
       ELSE /\ pc' = [pc EXCEPT ![p] = "cookies"]
            /\ UNCHANGED tried
    /\ UNCHANGED <<clockVars, cacheVars, nLogins, openCtx, ctx, accessToken, jar,
                   gsError, callVars, histVars>>
    /\ UNCHANGED restVars

\* dsr.js:127-156: page.evaluate resolves and its value is assigned to
\* accessToken; if that is null the current URL is scanned (dsr.js:149-153);
\* then context.cookies() is awaited.
Script(p, inScript, inUrl) ==
    /\ pc[p] = "script"
    /\ IF inScript
       THEN /\ accessToken' = [accessToken EXCEPT ![p] = Token(ctx[p], "script")]
            /\ UNCHANGED tried
       ELSE /\ accessToken' = [accessToken EXCEPT ![p] =
                                  IF inUrl THEN Token(ctx[p], "url") ELSE NoToken]
            /\ tried' = [tried EXCEPT ![p] = Append(@, "url")]
    /\ pc' = [pc EXCEPT ![p] = "cookies"]
    /\ UNCHANGED <<clockVars, cacheVars, nLogins, openCtx, ctx, jar, gsError,
                   callVars, histVars>>
    /\ UNCHANGED restVars

\* A cookie step that caches the session as soon as a token is at hand, before
\* it looks for JSESSIONID.
CookiesStoringEarly(p, jsession) ==
    /\ pc[p] = "cookies"
    /\ jar' = [jar EXCEPT ![p] = IF jsession THEN "present" ELSE "absent"]
    /\ IF accessToken[p] = NoToken
       THEN /\ UNCHANGED <<cacheVars, session, acquired, denied>>
            /\ IF CookieMissing(jsession, accessToken[p])
               THEN /\ Throw(p, "Failed to capture JSESSIONID after login")
                    /\ UNCHANGED tried
               ELSE /\ pc' = [pc EXCEPT ![p] = "script2"]
                    /\ tried' = [tried EXCEPT ![p] = Append(@, "script2")]
                    /\ UNCHANGED gsError
       ELSE /\ Store(p, accessToken[p])
            /\ gsError' = [gsError EXCEPT ![p] =
                              IF CookieMissing(jsession, accessToken[p])
                              THEN "Failed to capture JSESSIONID after login"
                              ELSE @]
            /\ UNCHANGED tried
    /\ UNCHANGED <<clockVars, nLogins, openCtx, ctx, accessToken, attempt, fromCache,
                   reqs, sent, statuses, reauths, body, result, prevRet>>
    /\ UNCHANGED restVars

\* dsr.js:156-191: the cookie jar is read. Without JSESSIONID getSession
\* throws; with it and a token the session is stored; with it and no token the
\* page scripts are scanned once more (dsr.js:165).
Cookies(p, jsession) ==
    /\ pc[p] = "cookies"
    /\ jar' = [jar EXCEPT ![p] = IF jsession THEN "present" ELSE "absent"]
    /\ IF CookieMissing(jsession, accessToken[p])
       THEN /\ Throw(p, "Failed to capture JSESSIONID after login")
            /\ UNCHANGED <<cacheVars, session, acquired, denied, tried>>
       ELSE IF accessToken[p] = NoToken
       THEN /\ pc' = [pc EXCEPT ![p] = "script2"]
            /\ tried' = [tried EXCEPT ![p] = Append(@, "script2")]
            /\ UNCHANGED <<cacheVars, session, acquired, denied, gsError>>
       ELSE /\ Store(p, accessToken[p])
            /\ UNCHANGED <<tried, gsError>>
    /\ UNCHANGED <<clockVars, nLogins, openCtx, ctx, accessToken, attempt, fromCache,
                   reqs, sent, statuses, reauths, body, result, prevRet>>
    /\ UNCHANGED restVars

\* dsr.js:165-191: the second script scan resolves and its value is assigned
\* to accessToken; null makes getSession throw, a token is stored.
Script2(p, inScript) ==
    /\ pc[p] = "script2"
    /\ IF inScript
       THEN /\ accessToken' = [accessToken EXCEPT ![p] = Token(ctx[p], "script2")]
            /\ Store(p, Token(ctx[p], "script2"))
            /\ UNCHANGED gsError
       ELSE /\ accessToken' = [accessToken EXCEPT ![p] = NoToken]
            /\ Throw(p, "Failed to capture access_token")
            /\ UNCHANGED <<cacheVars, session, acquired, denied>>
    /\ UNCHANGED <<clockVars, nLogins, openCtx, ctx, tried, jar, attempt, fromCache,
                   reqs, sent, statuses, reauths, body, result, prevRet>>
    /\ UNCHANGED restVars

\* dsr.js:195-197 then dsr.js:207-220 or dsr.js:228-237: context.close()
\* resolves; getSession returns the session it stored and the request is
\* issued, or it throws what the try block threw.
Close(p) ==
    /\ pc[p] = "close"
    /\ openCtx' = openCtx \ {ctx[p]}
    /\ IF gsError[p] = "none"
       THEN /\ pc' = [pc EXCEPT ![p] = "fetch"]
            /\ reqs' = [reqs EXCEPT ![p] = @ + 1]
            /\ Send(p, session[p])
            /\ prevRet' = session[p].login
            /\ UNCHANGED result
       ELSE /\ Fail(p, gsError[p])
            /\ prevRet' = 0
            /\ UNCHANGED <<reqs, sent>>
    /\ LeaveGetSession(p)
    /\ UNCHANGED <<clockVars, cacheVars, nLogins, attempt, session, fromCache,
                   statuses, reauths, body, acquired, denied>>
    /\ UNCHANGED restVars

\* dsr.js:195-197: context.close() rejects (the browser is gone, and the
\* context with it); the rejection replaces getSession's outcome.
CloseFail(p) ==
    /\ pc[p] = "close"
    /\ openCtx' = openCtx \ {ctx[p]}
    /\ Fail(p, "context.close failed")
    /\ prevRet' = 0
    /\ LeaveGetSession(p)
    /\ UNCHANGED <<clockVars, cacheVars, nLogins, attempt, session, fromCache, reqs,
                   sent, statuses, reauths, body, acquired, denied>>
    /\ UNCHANGED restVars

\* dsr.js:214-244: a response arrives. A denied first response clears the
\* cache and runs getSession again up to its first await; any other response
\* that is not ok throws; an ok response goes on to response.json().
FetchResponse(p, status) ==
    /\ pc[p] = "fetch"
    /\ statuses' = [statuses EXCEPT ![p] = Append(@, status)]
    /\ IF ShouldReauth(attempt[p], status)
       THEN /\ Invalidate
            /\ attempt' = [attempt EXCEPT ![p] = 2]
            /\ reauths' = [reauths EXCEPT ![p] = @ + 1]
            /\ IF CacheHit(cachedSession', sessionExpiry')
               THEN ServeFromCache(p, cachedSession')
               ELSE BeginLogin(p) /\ prevRet' = 0
            /\ UNCHANGED result
       ELSE /\ IF ResponseOk(status)
               THEN pc' = [pc EXCEPT ![p] = "json"] /\ UNCHANGED result
               ELSE Fail(p, StatusError(status))
            /\ UNCHANGED <<cacheVars, attempt, session, fromCache, reqs, sent, reauths,
                           prevRet>>
    /\ denied' = IF cachedSession' = NoSession THEN FALSE
                 ELSE IF session[p].login = cachedSession'.login THEN AuthDenied(status)
                 ELSE denied
    /\ acquired' = Forget(acquired, cachedSession')
    /\ UNCHANGED <<clockVars, nLogins, openCtx, loginVars, body>>
    /\ UNCHANGED restVars

\* dsr.js:214 or dsr.js:231: fetch rejects (no response at all).
FetchReject(p) ==
    /\ pc[p] = "fetch"
    /\ Fail(p, "fetch failed")
    /\ UNCHANGED <<clockVars, cacheVars, nLogins, openCtx, loginVars, attempt,
                   session, fromCache, reqs, sent, statuses, reauths, body, histVars>>
    /\ UNCHANGED restVars

\* dsr.js:244-245: response.json() resolves and is normalized, or rejects on a
\* body that is not JSON.
Json(p, payload) ==
    /\ pc[p] = "json"
    /\ body' = [body EXCEPT ![p] = payload]
    /\ IF payload = "malformed"
       THEN Fail(p, "invalid json")
       ELSE /\ pc' = [pc EXCEPT ![p] = "done"]
            /\ result' = [result EXCEPT ![p] = Summary(formatResponse(PayloadJson(payload)))]
    /\ UNCHANGED <<clockVars, cacheVars, nLogins, openCtx, loginVars, attempt,
                   session, fromCache, reqs, sent, statuses, reauths, histVars>>
    /\ UNCHANGED restVars

\* The caller has taken the result; the invocation's locals are gone.
Return(p) ==
    /\ pc[p] = "done"
    /\ pc' = [pc EXCEPT ![p] = "idle"]
    /\ attempt' = [attempt EXCEPT ![p] = 0]
    /\ session' = [session EXCEPT ![p] = NoSession]
    /\ fromCache' = [fromCache EXCEPT ![p] = FALSE]
    /\ reqs' = [reqs EXCEPT ![p] = 0]
    /\ sent' = [sent EXCEPT ![p] = <<>>]
    /\ statuses' = [statuses EXCEPT ![p] = <<>>]
    /\ reauths' = [reauths EXCEPT ![p] = 0]
    /\ body' = [body EXCEPT ![p] = "none"]
    /\ result' = [result EXCEPT ![p] = NoResult]
    /\ UNCHANGED <<clockVars, cacheVars, nLogins, openCtx, loginVars, histVars>>
    /\ UNCHANGED restVars

\* dsr.js:328-331.
clearSession ==
    /\ Invalidate
    /\ acquired' = Forget(acquired, cachedSession')
    /\ denied' = FALSE
    /\ prevRet' = 0
    /\ UNCHANGED <<clockVars, nLogins, openCtx, pc, loginVars, callVars>>
    /\ UNCHANGED restVars

\* Date.now() moves on.
Tick(d) ==
    /\ ticks < MaxTicks
    /\ ticks' = ticks + 1
    /\ now' = now + d
    /\ UNCHANGED <<cacheVars, nLogins, openCtx, pc, loginVars, callVars, histVars>>
    /\ UNCHANGED restVars

\* One step of caller p.
Step(p) ==
    \/ Call(p)
    \/ GetPageOk(p)
    \/ \E leak \in BOOLEAN : GetPageFail(p, leak)
    \/ OnRequest(p)
    \/ \E ok \in BOOLEAN : Login(p, ok)
    \/ \E ok \in BOOLEAN : PostLogin(p, ok)
    \/ Search(p)
    \/ \E inScript, inUrl \in BOOLEAN : Script(p, inScript, inUrl)
    \/ \E jsession \in BOOLEAN : Cookies(p, jsession)
    \/ \E inScript \in BOOLEAN : Script2(p, inScript)
    \/ Close(p)
    \/ CloseFail(p)
    \/ \E status \in Statuses : FetchResponse(p, status)
    \/ FetchReject(p)
    \/ \E payload \in Payloads : Json(p, payload)
    \/ Return(p)

\* Callers overlap freely: any caller may take its next step.
Next ==
    \/ \E p \in Procs : Step(p)
    \/ clearSession
    \/ \E d \in TickSteps : Tick(d)

Spec == Init /\ [][Next]_vars

\* Callers one after the other: an invocation of scrapeStockOnMarket starts and
\* runs, and clearSession is called, only while no other invocation is in
\* progress.
NextSeq ==
    \/ \E p \in Procs : (\A q \in Procs \ {p} : pc[q] = "idle") /\ Step(p)
    \/ (\A q \in Procs : pc[q] = "idle") /\ clearSession
    \/ \E d \in TickSteps : Tick(d)

SpecSeq == Init /\ [][NextSeq]_vars

\* The steps of an invocation that end whatever the provider does: every wait
\* on the provider's pages carries a timeout (dsr.js:72, 79-83, 91, 97-114;
\* page.goto, fill and click have the 30 s default of Playwright), the other
\* awaits are answered by the local browser (getPage at line 55, evaluate at
\* 125 and 164, cookies at 156, close at 196), and the rest is synchronous.
\* The two fetch calls (dsr.js:214 and 231) and response.json() (dsr.js:244)
\* are given neither an AbortSignal nor a timeout and are not among them.
TimedStep(p) ==
    \/ GetPageOk(p)
    \/ \E leak \in BOOLEAN : GetPageFail(p, leak)
    \/ \E ok \in BOOLEAN : Login(p, ok)
    \/ \E ok \in BOOLEAN : PostLogin(p, ok)
    \/ Search(p)
    \/ \E inScript, inUrl \in BOOLEAN : Script(p, inScript, inUrl)
    \/ \E jsession \in BOOLEAN : Cookies(p, jsession)
    \/ \E inScript \in BOOLEAN : Script2(p, inScript)
    \/ Close(p)
    \/ CloseFail(p)
    \/ Return(p)

\* Callers one after the other, where every step that the code bounds is
\* eventually taken; when the provider answers a fetch is left open.
SpecLive == Init /\ [][NextSeq]_vars /\ \A p \in Procs : WF_vars(TimedStep(p))

\* ------------------------------------------------ formatResponse on its own

\* How often one payload is normalized.
MaxCalls == 2

\* How far json?.response?.all_mkt_stats can fail to get: json is null, has
\* no response, a null response, a response without stats, or null stats.
AbsentShapes == {"null", "noResponse", "nullResponse", "noStats", "nullStats"}

StatFields == {"ACR", "DSR", "TV", "RENTERS", "DOM", "OSI", "YIELD", "SOM_PERC",
               "VACANCY", "MEDIAN_12", "SR", "DISCOUNT"}

\* The ways a payload carries the amount h: as a number, as the shortest
\* decimal string, as a string with two decimals.
NumericForms(h) == {Num(h), Str(NumberToString(h)), Str(toFixed2(Num(h)))}

\* Field values that are missing or no numbers.
NonNumeric == {Undefined, Str(<<>>), Str(<<"n", "/", "a">>)}

\* Amounts around the thresholds of dsr.js:299-310, in hundredths.
StockEdges == {150, 151, 300, 301}
DomEdges == {2500, 2600, 4500, 4600}
VacancyEdges == {200, 201, 300, 301}
YieldEdges == {299, 300, 499, 500}

\* The stats of the documented example response.
DocumentedStats ==
    [SampleStats EXCEPT !.SOM_PERC = Str(<<"0", ".", "9", "5">>),
                        !.VACANCY = Str(<<"1", ".", "3", "2">>)]

\* The stats objects normalized: the sample with one field running through a
\* range in every form, with one field missing or non-numeric, and with the
\* four rated fields at every combination of threshold amounts.
FmtStats ==
    {[SampleStats EXCEPT !.SOM_PERC = x] : x \in UNION {NumericForms(h) : h \in 0..400}}
    \cup {[SampleStats EXCEPT !.DOM = x] :
             x \in UNION {NumericForms(h) : h \in {100 * d : d \in 0..60} \cup {2501, 4501}}}
    \cup {[SampleStats EXCEPT !.VACANCY = x] : x \in UNION {NumericForms(h) : h \in 0..400}}
    \cup {[SampleStats EXCEPT !.YIELD = x] : x \in UNION {NumericForms(h) : h \in 0..700}}
    \cup {[SampleStats EXCEPT ![f] = x] : f \in StatFields, x \in NonNumeric}
    \cup {[SampleStats EXCEPT !.SOM_PERC = Num(s), !.DOM = Num(d),
                              !.VACANCY = Num(v), !.YIELD = Num(y)] :
             s \in StockEdges, d \in DomEdges, v \in VacancyEdges, y \in YieldEdges}
    \cup {SampleStats, DocumentedStats}

FmtPayloads ==
    {Payload(shape, SampleStats) : shape \in AbsentShapes}
    \cup {Payload("stats", stats) : stats \in FmtStats}

\* The session manager after one invocation that logged in at time 0 and
\* returned: session 1 is cached.
DsrAfterLogin ==
    /\ now = 0 /\ ticks = 0
    /\ cachedSession = [login |-> 1, accessToken |-> 1, cookies |-> 1]
    /\ sessionExpiry = SESSION_TTL
    /\ nLogins = 1
    /\ openCtx = {}
    /\ pc = [p \in Procs |-> "idle"]
    /\ attempt = [p \in Procs |-> 0]
    /\ ctx = [p \in Procs |-> 0]
    /\ accessToken = [p \in Procs |-> NoToken]
    /\ tried = [p \in Procs |-> <<>>]
    /\ jar = [p \in Procs |-> "unread"]
    /\ gsError = [p \in Procs |-> "none"]
    /\ session = [p \in Procs |-> NoSession]
    /\ fromCache = [p \in Procs |-> FALSE]
    /\ reqs = [p \in Procs |-> 0]
    /\ sent = [p \in Procs |-> <<>>]
    /\ statuses = [p \in Procs |-> <<>>]
    /\ reauths = [p \in Procs |-> 0]
    /\ body = [p \in Procs |-> "none"]
    /\ result = [p \in Procs |-> NoResult]
    /\ acquired = [login |-> 1, at |-> 0]
    /\ denied = FALSE
    /\ prevRet = 1

InitFmt ==
    /\ DsrInit \/ DsrAfterLogin
    /\ raw \in FmtPayloads
    /\ formatted = <<>>
    /\ CmpIdle /\ PropIdle /\ ExtIdle

\* dsr.js:245: formatResponse is applied to the payload.
Format ==
    /\ Len(formatted) < MaxCalls
    /\ formatted' = Append(formatted, [out |-> formatResponse(raw), cache |-> cachedSession])
    /\ UNCHANGED <<raw, dsrVars, cmpVars, propVars, extVars>>

\* formatResponse is applied to one payload again and again while the session
\* cache is cleared in between.
NextFmt ==
    \/ Format
    \/ clearSession

SpecFmt == InitFmt /\ [][NextFmt]_vars

\* ------------------------------------------ searchAddress (corelogic.js:71-95)

\* How one search can go: the first suggestion is the property and its detail
\* renders; nothing matches the address; the search input never appears; a
\* suggestion is followed and the detail region never appears.
SearchOutcomes == {"found", "miss", "noInput", "timeout"}

\* The detail the page shows after a search. Nothing in searchAddress leaves
\* the page it starts on: a search that matches nothing either leaves that
\* page as it is or ends on a page without a detail region.
PageAfterSearch(page, address, outcome, stays) ==
    CASE outcome = "found" -> address
      [] outcome = "miss" -> IF stays THEN page ELSE "blank"
      [] outcome = "noInput" -> page
      [] OTHER -> "blank"

\* corelogic.js:72 and 94: searchAddress returns when the search input was
\* there and the selector of the detail region matches the page.
SearchResolves(page, outcome) == outcome # "noInput" /\ page # "blank"

\* The message of the error searchAddress throws.
SearchError(outcome) ==
    IF outcome = "noInput" THEN "search input timeout" ELSE "detail region timeout"

\* ------------------------------------- scrapeComparables (corelogic.js:274-330)

\* The longest batch.
MaxBatch == 3

Addresses == {"A", "B"}

\* The batches: every sequence of addresses up to the longest.
Batches == UNION {[1..n -> Addresses] : n \in 0..MaxBatch}

InitCmp ==
    /\ DsrInit /\ FmtIdle /\ PropIdle /\ ExtIdle
    /\ addresses \in Batches
    /\ cmpPc = "idle" /\ idx = 0 /\ results = NoResults /\ shown = "blank"
    /\ cmpCtx = 0 /\ cmpLogins = 0 /\ cmpRet = CmpPending /\ failed = {}

\* corelogic.js:314, the entry of an address whose data was read off the page.
Comparable(address, page) ==
    [address |-> address, success |-> TRUE, error |-> "none", page |-> page]

\* corelogic.js:317, the entry of an address whose search or extraction threw.
ComparableFailure(address, msg) ==
    [address |-> address, success |-> FALSE, error |-> msg, page |-> "blank"]

\* corelogic.js:323 and 326, the value the batch returns.
CmpReturn(success, msg, entries) ==
    [state |-> "returned", success |-> success, error |-> msg, data |-> entries]

\* The loop going round with a new context and a new login for each address.
NextAddressFreshContext ==
    /\ idx' = idx + 1
    /\ cmpPc' = "search"
    /\ cmpCtx' = cmpCtx + 1
    /\ cmpLogins' = cmpLogins + 1
    /\ UNCHANGED cmpRet

\* corelogic.js:281, the loop takes the next address on the same page.
NextAddress ==
    /\ idx' = idx + 1
    /\ cmpPc' = "search"
    /\ UNCHANGED <<cmpCtx, cmpLogins, cmpRet>>

\* corelogic.js:274-275: scrapeComparables is called and awaits getPage.
CmpCall ==
    /\ cmpPc = "idle"
    /\ cmpPc' = "getPage"
    /\ UNCHANGED <<addresses, idx, results, shown, cmpCtx, cmpLogins, cmpRet, failed>>
    /\ UNCHANGED <<dsrVars, fmtVars, propVars, extVars>>

\* corelogic.js:275: getPage resolves with a new context, or rejects, and then
\* so does scrapeComparables, the call being outside the try.
CmpGetPage(ok) ==
    /\ cmpPc = "getPage"
    /\ IF ok
       THEN /\ cmpCtx' = cmpCtx + 1
            /\ cmpPc' = "login"
            /\ UNCHANGED cmpRet
       ELSE /\ cmpRet' = [CmpPending EXCEPT !.state = "rejected", !.error = "getPage failed"]
            /\ cmpPc' = "done"
            /\ UNCHANGED cmpCtx
    /\ UNCHANGED <<addresses, idx, results, shown, cmpLogins, failed>>
    /\ UNCHANGED <<dsrVars, fmtVars, propVars, extVars>>

\* corelogic.js:279-281 and 323-326: loginToCoreLogic returns and the loop
\* starts (or, the batch being empty, the results are returned), or it throws
\* and the outer catch returns the failure.
CmpLogin(ok) ==
    /\ cmpPc = "login"
    /\ cmpLogins' = cmpLogins + 1
    /\ IF ~ok
       THEN /\ cmpRet' = CmpReturn(FALSE, "login failed", <<>>)
            /\ cmpPc' = "close"
            /\ UNCHANGED idx
       ELSE IF addresses = <<>>
       THEN /\ cmpRet' = CmpReturn(TRUE, "none", results)
            /\ cmpPc' = "close"
            /\ UNCHANGED idx
       ELSE /\ idx' = 1
            /\ cmpPc' = "search"
            /\ UNCHANGED cmpRet
    /\ UNCHANGED <<addresses, results, shown, cmpCtx, failed>>
    /\ UNCHANGED <<dsrVars, fmtVars, propVars, extVars>>

\* corelogic.js:283 and 315-318: searchAddress returns and the page is read
\* next, or it throws and the failure is recorded for the address.
CmpSearch(outcome, stays) ==
    /\ cmpPc = "search"
    /\ shown' = PageAfterSearch(shown, addresses[idx], outcome, stays)
    /\ failed' = IF outcome = "found" THEN failed ELSE failed \cup {idx}
    /\ IF SearchResolves(shown', outcome)
       THEN /\ cmpPc' = "extract"
            /\ UNCHANGED results
       ELSE /\ results' = Append(results, ComparableFailure(addresses[idx], SearchError(outcome)))
            /\ cmpPc' = "pause"
    /\ UNCHANGED <<addresses, idx, cmpCtx, cmpLogins, cmpRet>>
    /\ UNCHANGED <<dsrVars, fmtVars, propVars, extVars>>

\* corelogic.js:285-318: page.evaluate returns what the page shows and the
\* entry is recorded, or it throws and the failure is recorded.
CmpExtract(ok) ==
    /\ cmpPc = "extract"
    /\ IF ok
       THEN /\ results' = Append(results, Comparable(addresses[idx], shown))
            /\ UNCHANGED failed
       ELSE /\ results' = Append(results, ComparableFailure(addresses[idx], "evaluate failed"))
            /\ failed' = failed \cup {idx}
    /\ cmpPc' = "pause"
    /\ UNCHANGED <<addresses, idx, shown, cmpCtx, cmpLogins, cmpRet>>
    /\ UNCHANGED <<dsrVars, fmtVars, propVars, extVars>>

\* corelogic.js:320-326: the pause after an address is over and the loop goes
\* on or the results are returned; or the pause, which is outside the inner
\* try, throws and the outer catch returns the failure.
CmpPause(ok) ==
    /\ cmpPc = "pause"
    /\ IF ~ok
       THEN /\ cmpRet' = CmpReturn(FALSE, "page closed", <<>>)
            /\ cmpPc' = "close"
            /\ UNCHANGED <<idx, cmpCtx, cmpLogins>>
       ELSE IF idx < Len(addresses)
       THEN NextAddress
       ELSE /\ cmpRet' = CmpReturn(TRUE, "none", results)
            /\ cmpPc' = "close"
            /\ UNCHANGED <<idx, cmpCtx, cmpLogins>>
    /\ UNCHANGED <<addresses, results, shown, failed>>
    /\ UNCHANGED <<dsrVars, fmtVars, propVars, extVars>>

\* corelogic.js:327-329: the context is closed and the caller gets the value.
CmpClose ==
    /\ cmpPc = "close"
    /\ cmpPc' = "done"
    /\ UNCHANGED <<addresses, idx, results, shown, cmpCtx, cmpLogins, cmpRet, failed>>
    /\ UNCHANGED <<dsrVars, fmtVars, propVars, extVars>>

NextCmp ==
    \/ CmpCall
    \/ \E ok \in BOOLEAN : CmpGetPage(ok)
    \/ \E ok \in BOOLEAN : CmpLogin(ok)
    \/ \E outcome \in SearchOutcomes, stays \in BOOLEAN : CmpSearch(outcome, stays)
    \/ \E ok \in BOOLEAN : CmpExtract(ok)
    \/ \E ok \in BOOLEAN : CmpPause(ok)
    \/ CmpClose

SpecCmp == InitCmp /\ [][NextCmp]_vars

\* --------------------------------------- scrapeProperty (corelogic.js:101-267)

\* The address scrapeProperty is called with.
PropAddress == "A"

\* corelogic.js:168-172, the attribute types read and the fields they fill.
AttrTypes == {"bed", "bath", "car", "land-area", "floor-area"}

AttrField(type) ==
    CASE type = "bed" -> "bedrooms"
      [] type = "bath" -> "bathrooms"
      [] type = "car" -> "car_spaces"
      [] type = "land-area" -> "land_size"
      [] OTHER -> "floor_area"

\* What a property page can hold of the things corelogic.js:115-180 looks
\* for: none, one, all but one or all of the attributes; year built and
\* property type; the listing description; the sale section (missing, without
\* price and date, with one of them, with both); schools.
PageContents ==
    [attrs : {a \in SUBSET AttrTypes : Cardinality(a) \in {0, 1, 4, 5}},
     main : SUBSET {"year", "type"},
     desc : BOOLEAN,
     sale : {"none", "empty", "price", "date", "both"},
     schools : BOOLEAN]

\* corelogic.js:191, the AVM tabs the page can hold, in the order of the page.
TabLists ==
    {<<>>, <<"Valuation">>, <<"Rental">>, <<"Valuation", "Rental">>,
     <<"Rental", "Valuation">>, <<"Overview">>,
     <<"Overview", "Valuation Estimate", "Rental Estimate">>}

\* The rental figures the rental tab can show: none, the middle one, all.
RentalShown == {{}, {"mid"}, {"low", "mid", "high", "yield"}}

\* The text of an element that is on the page, with "null" for a missing one.
getTextNull(present) == IF present THEN "value" ELSE "null"

\* corelogic.js:116-127, getText and getAttr: the text of the element, or the
\* empty string when no element matches.
getText(present) == IF present THEN "value" ELSE ""

\* A market status that reads a sale price as a listing still on the market.
marketStatusInverted(soldPrice) ==
    IF soldPrice # "" THEN "ON Market" ELSE "OFF Market"

\* corelogic.js:258: the market status is derived from the truthiness of the
\* sale price, and a string is truthy exactly when it is not empty.
marketStatus(soldPrice) ==
    IF soldPrice # "" THEN "OFF Market" ELSE "ON Market"

\* corelogic.js:193-252: the tabs activated before tab number err threw
\* (err = 0: none threw; a failing tab query is a throw at the first tab).
TabsDone(tabs, err) == IF err = 0 THEN tabs ELSE SubSeq(tabs, 1, err - 1)

\* The known tab names a label contains; the labels are those of TabLists.
Names(label) ==
    CASE label \in {"Valuation", "Valuation Estimate"} -> {"Valuation"}
      [] label \in {"Rental", "Rental Estimate"} -> {"Rental"}
      [] OTHER -> {}

\* corelogic.js:197 and 215, tabText.includes(name).
Includes(label, name) == name \in Names(label)

HasTab(tabs, name) == \E i \in 1..Len(tabs) : Includes(tabs[i], name)

\* corelogic.js:197-198 and 215-216: the positions whose tab the loop clicks
\* when it gets as far as the end of tabs.
Activated(tabs) ==
    {i \in 1..Len(tabs) : Includes(tabs[i], "Valuation") \/ Includes(tabs[i], "Rental")}

\* corelogic.js:102: scrapeProperty is called and awaits getPage.
PropCall ==
    /\ propPc = "idle"
    /\ propPc' = "getPage"
    /\ UNCHANGED <<propPage, data, propRet, pageHas, propHist>>
    /\ UNCHANGED <<dsrVars, fmtVars, cmpVars, extVars>>

\* corelogic.js:102: getPage resolves, or rejects and so does scrapeProperty.
PropGetPage(ok) ==
    /\ propPc = "getPage"
    /\ IF ok
       THEN propPc' = "login" /\ UNCHANGED propRet
       ELSE /\ propRet' = [Pending EXCEPT !.state = "rejected", !.error = "getPage failed"]
            /\ propPc' = "done"
    /\ UNCHANGED <<propPage, data, pageHas, propHist>>
    /\ UNCHANGED <<dsrVars, fmtVars, cmpVars, extVars>>

\* corelogic.js:105 and 261-263: loginToCoreLogic returns, or throws and the
\* catch returns the failure.
PropLogin(ok) ==
    /\ propPc = "login"
    /\ propHist' = [propHist EXCEPT !.login = ok]
    /\ IF ok
       THEN propPc' = "search" /\ UNCHANGED propRet
       ELSE /\ propRet' = [state |-> "returned", success |-> FALSE, error |-> "login failed"]
            /\ propPc' = "close"
    /\ UNCHANGED <<propPage, data, pageHas>>
    /\ UNCHANGED <<dsrVars, fmtVars, cmpVars, extVars>>

\* corelogic.js:106 and 261-263: searchAddress returns with the detail region
\* on the page, or throws and the catch returns the failure.
PropSearch(outcome, stays) ==
    /\ propPc = "search"
    /\ propPage' = PageAfterSearch(propPage, PropAddress, outcome, stays)
    /\ propHist' = [propHist EXCEPT !.inputs = outcome # "noInput",
                                    !.detail = SearchResolves(propPage', outcome)]
    /\ IF SearchResolves(propPage', outcome)
       THEN propPc' = "extract" /\ UNCHANGED propRet
       ELSE /\ propRet' = [state |-> "returned", success |-> FALSE,
                           error |-> SearchError(outcome)]
            /\ propPc' = "close"
    /\ UNCHANGED <<data, pageHas>>
    /\ UNCHANGED <<dsrVars, fmtVars, cmpVars, extVars>>

\* corelogic.js:109-187: the page is scrolled and read; what is not on it is
\* the empty string, and the fields of the tabs start empty.
PropExtract(has) ==
    /\ propPc = "extract"
    /\ pageHas' = [NothingRead EXCEPT !.attrs = has.attrs, !.main = has.main,
                                      !.desc = has.desc, !.sale = has.sale,
                                      !.schools = has.schools]
    /\ data' = [EmptyData EXCEPT
                  !.bedrooms = getText("bed" \in has.attrs),
                  !.bathrooms = getText("bath" \in has.attrs),
                  !.car_spaces = getText("car" \in has.attrs),
                  !.land_size = getText("land-area" \in has.attrs),
                  !.floor_area = getText("floor-area" \in has.attrs),
                  !.year_built = getText("year" \in has.main),
                  !.property_type = getText("type" \in has.main),
                  !.listing_description = getText(has.desc),
                  !.sold_price = getText(has.sale \in {"price", "both"}),
                  !.sold_date = getText(has.sale \in {"date", "both"}),
                  !.schools = IF has.schools THEN <<"school">> ELSE <<>>]
    /\ propPc' = "tabs"
    /\ UNCHANGED <<propPage, propRet, propHist>>
    /\ UNCHANGED <<dsrVars, fmtVars, cmpVars, extVars>>

\* corelogic.js:189-260: the tabs are activated one after the other until one
\* throws, which the inner catch swallows; the market status is derived and
\* the record returned.
PropTabs(tabs, err, valuation, rental) ==
    /\ propPc = "tabs"
    /\ err \in 0..Len(tabs)
    /\ pageHas' = [pageHas EXCEPT !.tabs = tabs, !.err = err,
                                  !.valuation = valuation, !.rental = rental,
                                  !.activated = Activated(TabsDone(tabs, err))]
    /\ LET done == TabsDone(tabs, err)
           rent(f) == getText(HasTab(done, "Rental") /\ f \in rental)
       IN data' = [data EXCEPT
                     !.valuation_estimate = getText(HasTab(done, "Valuation") /\ valuation),
                     !.rental_low = rent("low"),
                     !.rental_mid = rent("mid"),
                     !.rental_high = rent("high"),
                     !.rental_yield = rent("yield"),
                     !.market_status = marketStatus(data.sold_price)]
    /\ propRet' = [state |-> "returned", success |-> TRUE, error |-> "none"]
    /\ propPc' = "close"
    /\ UNCHANGED <<propPage, propHist>>
    /\ UNCHANGED <<dsrVars, fmtVars, cmpVars, extVars>>

\* corelogic.js:264-266: the context is closed and the caller gets the value.
PropClose ==
    /\ propPc = "close"
    /\ propPc' = "done"
    /\ UNCHANGED <<propPage, data, propRet, pageHas, propHist>>
    /\ UNCHANGED <<dsrVars, fmtVars, cmpVars, extVars>>

NextProp ==
    \/ PropCall
    \/ \E ok \in BOOLEAN : PropGetPage(ok)
    \/ \E ok \in BOOLEAN : PropLogin(ok)
    \/ \E outcome \in SearchOutcomes, stays \in BOOLEAN : PropSearch(outcome, stays)
    \/ \E has \in PageContents : PropExtract(has)
    \/ \E tabs \in TabLists, err \in 0..3, valuation \in BOOLEAN, rental \in RentalShown :
          PropTabs(tabs, err, valuation, rental)
    \/ PropClose

SpecProp == Init /\ [][NextProp]_vars

\* ------------------------------------------- the browser (browser.js:3-47)

\* browser.js:6: the test of getBrowser, true when a launch is needed.
NeedsLaunch == browser = 0 \/ browser \notin live

Launching == {r \in Procs : brPc[r] \in {"launch", "sqmLaunch"}}

\* browser.js:5-21: getPage calls getBrowser, which returns the shared
\* browser when it is connected and otherwise awaits chromium.launch.
getBrowser(r) ==
    /\ brPc[r] = "idle"
    /\ IF NeedsLaunch
       THEN brPc' = [brPc EXCEPT ![r] = "launch"] /\ UNCHANGED held
       ELSE /\ brPc' = [brPc EXCEPT ![r] = "context"]
            /\ held' = [held EXCEPT ![r] = browser]
    /\ UNCHANGED <<browser, live, nLaunched, beyondBr>>

\* browser.js:7-17: the launch resolves; the new browser is assigned to the
\* shared variable, whatever it holds by now, and returned.
LaunchOk(r) ==
    /\ brPc[r] = "launch"
    /\ nLaunched < MaxLaunches
    /\ nLaunched' = nLaunched + 1
    /\ live' = live \cup {nLaunched'}
    /\ browser' = nLaunched'
    /\ held' = [held EXCEPT ![r] = nLaunched']
    /\ brPc' = [brPc EXCEPT ![r] = "context"]
    /\ UNCHANGED beyondBr

\* browser.js:7: the launch rejects, and getPage with it.
LaunchFail(r) ==
    /\ brPc[r] = "launch"
    /\ brPc' = [brPc EXCEPT ![r] = "idle"]
    /\ UNCHANGED <<browser, live, nLaunched, held, beyondBr>>

\* browser.js:22-39: a context and a page are made in the browser returned,
\* which fails when that browser has disconnected.
NewContext(r) ==
    /\ brPc[r] = "context"
    /\ IF held[r] \in live
       THEN brPc' = [brPc EXCEPT ![r] = "busy"] /\ UNCHANGED held
       ELSE /\ brPc' = [brPc EXCEPT ![r] = "idle"]
            /\ held' = [held EXCEPT ![r] = 0]
    /\ UNCHANGED <<browser, live, nLaunched, beyondBr>>

\* dsr.js:195-197, corelogic.js:264-266 and 327-329: the operation ends and
\* closes its context; the browser stays.
Finish(r) ==
    /\ brPc[r] = "busy"
    /\ brPc' = [brPc EXCEPT ![r] = "idle"]
    /\ held' = [held EXCEPT ![r] = 0]
    /\ UNCHANGED <<browser, live, nLaunched, beyondBr>>

\* server.js:75 and sqm-vacancy.js:15-27 (src/unnamed/part_000): the suburb
\* route calls scrapeSqmVacancy(postcode) without a browser, so it awaits a
\* launch of its own.
scrapeSqmVacancy(r) ==
    /\ brPc[r] = "idle"
    /\ brPc' = [brPc EXCEPT ![r] = "sqmLaunch"]
    /\ UNCHANGED <<browser, live, nLaunched, held, beyondBr>>

\* sqm-vacancy.js:22-26 and 119-124: the launch resolves and ownBrowser is
\* set, or it rejects and the catch returns the failure.
SqmLaunch(r, ok) ==
    /\ brPc[r] = "sqmLaunch"
    /\ IF ok
       THEN /\ nLaunched < MaxLaunches
            /\ nLaunched' = nLaunched + 1
            /\ live' = live \cup {nLaunched'}
            /\ held' = [held EXCEPT ![r] = nLaunched']
            /\ brPc' = [brPc EXCEPT ![r] = "sqmPage"]
       ELSE /\ brPc' = [brPc EXCEPT ![r] = "idle"]
            /\ UNCHANGED <<live, nLaunched, held>>
    /\ UNCHANGED <<browser, beyondBr>>

\* sqm-vacancy.js:29-92 and 119-122: the page is read and the own browser
\* closed, on the way out of the try as on the way through the catch.
SqmClose(r) ==
    /\ brPc[r] = "sqmPage"
    /\ live' = live \ {held[r]}
    /\ held' = [held EXCEPT ![r] = 0]
    /\ brPc' = [brPc EXCEPT ![r] = "idle"]
    /\ UNCHANGED <<browser, nLaunched, beyondBr>>

\* A browser process crashes or loses its connection (isConnected() turns
\* false, browser.js:6).
Disconnect(b) ==
    /\ b \in live
    /\ live' = live \ {b}
    /\ UNCHANGED <<browser, nLaunched, brPc, held, beyondBr>>

\* Requests overlap freely at their awaits.
NextBrowser ==
    \/ \E r \in Procs :
          \/ getBrowser(r)
          \/ LaunchOk(r)
          \/ LaunchFail(r)
          \/ NewContext(r)
          \/ Finish(r)
          \/ scrapeSqmVacancy(r)
          \/ \E ok \in BOOLEAN : SqmLaunch(r, ok)
          \/ SqmClose(r)
    \/ \E b \in 1..MaxLaunches : Disconnect(b)

SpecBrowser == Init /\ [][NextBrowser]_vars

\* ------------------------------------------------- the routes (server.js)

\* The failures scrapeStockOnMarket returns (dsr.js:246-249): a login that
\* failed, a token that was not captured, a denial after the retry, another
\* status that is not ok, a payload without stats.
DsrErrors ==
    {"login failed", "Failed to capture access_token", "DSR API returned 401",
     "DSR API returned 500", "No stats in DSR response"}

\* What scrapeStockOnMarket resolves with: formatResponse's record of a
\* payload, or one of the failures.
DsrResults ==
    {formatResponse(Payload("stats", SampleStats)),
     formatResponse(Payload("stats", [SampleStats EXCEPT !.SOM_PERC = Num(150)]))}
    \cup {[success |-> FALSE, error |-> e] : e \in DsrErrors}

\* ai-text.js:83-95, what generateSuburbText resolves with: the five fields,
\* each '' (highlights: []) when the model left it out, or a failure.
Narrative(full) ==
    [city_name |-> <<"c">>,
     suburb_overview |-> IF full THEN <<"o">> ELSE <<>>,
     highlights |-> IF full THEN << <<"h">> >> ELSE <<>>,
     future_prospects |-> IF full THEN <<"f">> ELSE <<>>,
     suburb_demographics |-> <<"d">>]

AiResults ==
    {[success |-> TRUE, error |-> "none", data |-> Narrative(full)] : full \in BOOLEAN}
    \cup {[success |-> FALSE, error |-> e, data |-> <<>>] :
            e \in {"ANTHROPIC_API_KEY not configured", "Anthropic API 529"}}

\* sqm-vacancy.js:93-124, what scrapeSqmVacancy resolves with.
SqmResults ==
    {[success |-> TRUE, data |-> [vacancy_rate |-> <<"1", ".", "1", "0", "%">>,
                                  period |-> p]] : p \in {<<>>, <<"J", "a", "n">>}}
    \cup {[success |-> FALSE, data |-> <<>>]}

\* obj.field || "" for a field that, when present, holds a string or an array.
OrEmpty(obj, field) ==
    IF field \in DOMAIN obj THEN obj[field] ELSE <<>>

\* A test of the flag that forgets it.
ShouldGenerateAlways(skip) == TRUE

\* server.js:50: the generator is called unless the request sets skipAiText.
ShouldGenerate(skip) == ~skip

\* server.js:53-56: a failed narrative result is replaced by an empty
\* successful one.
AiFallback(r) == IF r.success THEN r ELSE EmptyAiResult

\* An error list that leaves the stats source out.
ErrorsNone(dsrR, aiR) ==
    IF aiR.success THEN {} ELSE {[source |-> "claude", error |-> aiR.error]}

\* server.js:64-68: the errors array, as the set of its entries.
Errors(dsrR, aiR) ==
    (IF dsrR.success THEN {} ELSE {[source |-> "dsr", error |-> dsrR.error]})
    \cup (IF aiR.success THEN {} ELSE {[source |-> "claude", error |-> aiR.error]})

\* server.js:76-77: the SQM data are used when the scrape succeeded and
\* carries a rate; <<>> stands for null.
SqmVacancy(sqmR) ==
    IF sqmR.success /\ OrEmpty(sqmR.data, "vacancy_rate") # <<>> THEN sqmR.data ELSE <<>>

StatFieldsOut ==
    {"stock_on_market", "stock_rating", "days_on_market", "dom_rating",
     "vendor_discounting", "gross_rental_yield", "yield_rating", "typical_value",
     "renters_percentage", "dsr_score", "auction_clearance_rate",
     "online_search_interest", "vacancy_rating", "data_month", "data_year"}

NarrativeFields ==
    {"city_name", "suburb_overview", "highlights", "future_prospects",
     "suburb_demographics"}

\* server.js:85-117: the combined record.
Combined(ai, dsr, sqm) ==
    [f \in NarrativeFields \cup StatFieldsOut
         \cup {"median_house_price", "vacancy_rate", "vacancy_source", "vacancy_period"} |->
       CASE f \in NarrativeFields -> OrEmpty(ai, f)
         [] f \in StatFieldsOut -> OrEmpty(dsr, f)
         [] f = "median_house_price" -> OrEmpty(dsr, "median_12_months")
         [] f = "vacancy_rate" ->
              IF OrEmpty(sqm, "vacancy_rate") # <<>> THEN sqm.vacancy_rate
              ELSE OrEmpty(dsr, "vacancy_rate")
         [] f = "vacancy_source" ->
              IF sqm # <<>> THEN <<"S", "Q", "M">> ELSE <<"D", "S", "R">>
         [] OTHER -> OrEmpty(sqm, "period")]

\* server.js:46 and 61: the data of a successful result, {} of a failed one.
DataOf(r) == IF r.success THEN r.data ELSE <<>>

Reply(status, payload) == [status |-> status, body |-> payload]

\* server.js:30-38: POST /api/suburb; a body that lacks a field is answered
\* 400, otherwise scrapeStockOnMarket is awaited.
Suburb(valid, skip) ==
    /\ srvPc = "idle"
    /\ skipAiText' = skip
    /\ IF valid
       THEN srvPc' = "dsr" /\ UNCHANGED response
       ELSE /\ srvPc' = "done"
            /\ response' = Reply(400, [success |-> FALSE, error |-> "Missing required fields"])
    /\ UNCHANGED <<dsrResult, aiResult, aiCalls, failures, beyondSrv>>

\* server.js:44-52: the stats result arrives (scrapeStockOnMarket resolves,
\* its failures included); the generator is called next unless skipped.
SuburbStats(r) ==
    /\ srvPc = "dsr"
    /\ dsrResult' = r
    /\ failures' = failures \cup (IF r.success THEN {} ELSE {"dsr"})
    /\ IF ShouldGenerate(skipAiText)
       THEN srvPc' = "ai" /\ aiCalls' = aiCalls + 1
       ELSE srvPc' = "sqm" /\ UNCHANGED aiCalls
    /\ UNCHANGED <<skipAiText, aiResult, response, beyondSrv>>

\* server.js:52-56: generateSuburbText resolves (it catches its own errors,
\* ai-text.js:93-96).
SuburbText(r) ==
    /\ srvPc = "ai"
    /\ aiResult' = AiFallback(r)
    /\ failures' = failures \cup (IF r.success THEN {} ELSE {"claude"})
    /\ srvPc' = "sqm"
    /\ UNCHANGED <<skipAiText, dsrResult, aiCalls, response, beyondSrv>>

\* server.js:61-120: scrapeSqmVacancy resolves (it catches its own errors,
\* sqm-vacancy.js:119-124); the record is combined and sent with the errors.
SuburbReply(sqmR) ==
    /\ srvPc = "sqm"
    /\ failures' = failures \cup (IF sqmR.success THEN {} ELSE {"sqm"})
    /\ response' = Reply(200, [success |-> TRUE,
                               data |-> Combined(DataOf(aiResult), DataOf(dsrResult),
                                                 SqmVacancy(sqmR)),
                               errors |-> Errors(dsrResult, aiResult)])
    /\ srvPc' = "done"
    /\ UNCHANGED <<skipAiText, dsrResult, aiResult, aiCalls, beyondSrv>>

\* What scrapeComparables settles with (corelogic.js:323-326): the entries of
\* a batch, some of them failures, or the failure of the login; "rejected"
\* when getPage rejected (corelogic.js:275).
BatchResults ==
    {[success |-> TRUE, data |-> d] :
        d \in {<<Comparable("A", "A")>>,
               <<Comparable("A", "A"), ComparableFailure("B", "timeout")>>,
               <<ComparableFailure("A", "timeout")>>}}
    \cup {[success |-> FALSE, error |-> "login failed"]}

\* server.js:164-172: POST /api/comparables; anything but a non-empty array
\* is answered 400.
Comparables(valid) ==
    /\ srvPc = "idle"
    /\ IF valid
       THEN srvPc' = "cmp" /\ UNCHANGED response
       ELSE /\ srvPc' = "done"
            /\ response' = Reply(400, [success |-> FALSE, error |-> "Missing required field"])
    /\ UNCHANGED <<skipAiText, dsrResult, aiResult, aiCalls, failures, beyondSrv>>

\* The failures a batch result holds: that of the batch, those of its items.
BatchFailures(r) ==
    IF ~r.success THEN {"corelogic"}
    ELSE IF \E i \in 1..Len(r.data) : ~r.data[i].success THEN {"item"}
    ELSE {}

\* server.js:177-179: the result of scrapeComparables is sent as it is.
ComparablesReply(r) ==
    /\ srvPc = "cmp"
    /\ failures' = failures \cup BatchFailures(r)
    /\ response' = Reply(200, r)
    /\ srvPc' = "done"
    /\ UNCHANGED <<skipAiText, dsrResult, aiResult, aiCalls, beyondSrv>>

\* server.js:180-183: scrapeComparables rejected.
ComparablesReject ==
    /\ srvPc = "cmp"
    /\ failures' = failures \cup {"corelogic"}
    /\ response' = Reply(500, [success |-> FALSE, error |-> "getPage failed"])
    /\ srvPc' = "done"
    /\ UNCHANGED <<skipAiText, dsrResult, aiResult, aiCalls, beyondSrv>>

\* What scrapeProperty resolves with (corelogic.js:260-263).
PropertyResults ==
    {[success |-> TRUE, data |-> "PropertyRecord"]}
    \cup {[success |-> FALSE, error |-> e] : e \in {"login failed", "timeout"}}

\* server.js:148-151: a failed extraction is answered 500.
PropertyStatus(r) == IF r.success THEN 200 ELSE 500

\* server.js:134-142: POST /api/property; a body without address is
\* answered 400.
Property(valid) ==
    /\ srvPc = "idle"
    /\ IF valid
       THEN srvPc' = "prop" /\ UNCHANGED response
       ELSE /\ srvPc' = "done"
            /\ response' = Reply(400, [success |-> FALSE, error |-> "Missing required field"])
    /\ UNCHANGED <<skipAiText, dsrResult, aiResult, aiCalls, failures, beyondSrv>>

\* server.js:147-151: the result of scrapeProperty is sent.
PropertyReply(r) ==
    /\ srvPc = "prop"
    /\ failures' = failures \cup (IF r.success THEN {} ELSE {"corelogic"})
    /\ response' = Reply(PropertyStatus(r), r)
    /\ srvPc' = "done"
    /\ UNCHANGED <<skipAiText, dsrResult, aiResult, aiCalls, beyondSrv>>

\* server.js:152-155: scrapeProperty rejected (getPage, corelogic.js:102, or
\* context.close() in the finally).
PropertyReject ==
    /\ srvPc = "prop"
    /\ failures' = failures \cup {"corelogic"}
    /\ response' = Reply(500, [success |-> FALSE, error |-> "getPage failed"])
    /\ srvPc' = "done"
    /\ UNCHANGED <<skipAiText, dsrResult, aiResult, aiCalls, beyondSrv>>

\* The response is out and the next request is taken.
NextRequest ==
    /\ srvPc = "done"
    /\ srvPc' = "idle"
    /\ skipAiText' = FALSE
    /\ dsrResult' = NoResult /\ aiResult' = EmptyAiResult
    /\ aiCalls' = 0 /\ failures' = {} /\ response' = NoResponse
    /\ UNCHANGED beyondSrv

NextServer ==
    \/ \E valid, skip \in BOOLEAN : Suburb(valid, skip)
    \/ \E r \in DsrResults : SuburbStats(r)
    \/ \E r \in AiResults : SuburbText(r)
    \/ \E r \in SqmResults : SuburbReply(r)
    \/ \E valid \in BOOLEAN : Comparables(valid)
    \/ \E r \in BatchResults : ComparablesReply(r)
    \/ ComparablesReject
    \/ \E valid \in BOOLEAN : Property(valid)
    \/ \E r \in PropertyResults : PropertyReply(r)
    \/ PropertyReject
    \/ NextRequest

SpecServer == Init /\ [][NextServer]_vars

\* ------------------------------------------- authMiddleware (auth.js:6-21)

\* The key the deployment is configured with, and another string.
TheKey == <<"s", "1">>
WrongKey == <<"s", "2">>

\* "Bearer " (auth.js:14).
Bearer == <<"B", "e", "a", "r", "e", "r", " ">>

\* process.env.API_KEY: not set, set to the empty string, set to the key.
ApiKeys == {Undefined, Str(<<>>), Str(TheKey)}

\* The x-api-key header: absent, empty, the key, another string.
XApiKeys == {Undefined, Str(<<>>), Str(TheKey), Str(WrongKey)}

\* The Authorization header: absent, a Bearer token with the key or with
\* another string, the key alone, the key under another scheme or with the
\* scheme in lower case, the key with "Bearer " in its middle, the scheme
\* twice.
Authorizations ==
    {Undefined, Str(Bearer \o TheKey), Str(Bearer \o WrongKey), Str(TheKey),
     Str(<<"B", "a", "s", "i", "c", " ">> \o TheKey),
     Str(<<"b", "e", "a", "r", "e", "r", " ">> \o TheKey),
     Str(<<"s">> \o Bearer \o <<"1">>),
     Str(Bearer \o Bearer \o TheKey)}

\* JavaScript truthiness of undefined and of strings.
Truthy(x) == x.t = "string" /\ x.s # <<>>

\* x || y.
OrElse(x, y) == IF Truthy(x) THEN x ELSE y

\* The position of the first occurrence of pat in cs, 0 if there is none.
IndexOf(cs, pat) ==
    LET at == {i \in 1..(Len(cs) + 1 - Len(pat)) : SubSeq(cs, i, i + Len(pat) - 1) = pat}
    IN IF at = {} THEN 0 ELSE CHOOSE i \in at : \A j \in at : i <= j

\* String.prototype.replace with a string pattern: the first occurrence of
\* pat, wherever it is, is replaced.
Replace(cs, pat, by) ==
    LET i == IndexOf(cs, pat)
    IN IF i = 0 THEN cs
       ELSE SubSeq(cs, 1, i - 1) \o by \o SubSeq(cs, i + Len(pat), Len(cs))

\* auth.js:12-14.
HeaderKey(h) ==
    OrElse(h.xApiKey, Str(Replace(OrElse(h.authorization, Str(<<>>)).s, Bearer, <<>>)))

\* auth.js:10 and 16: the request goes on to the routes.
Passes(key, h) == ~Truthy(key) \/ HeaderKey(h) = key

\* A request arrives at the middleware (server.js:11).
Request(x, a) ==
    /\ authPc = "idle"
    /\ headers' = [xApiKey |-> x, authorization |-> a]
    /\ authPc' = "auth"
    /\ UNCHANGED <<apiKey, nextCalls, authStatus, beyondAuth>>

\* auth.js:6-21: next() is called, or the request is answered 401.
authMiddleware ==
    /\ authPc = "auth"
    /\ IF Passes(apiKey, headers)
       THEN nextCalls' = nextCalls + 1 /\ UNCHANGED authStatus
       ELSE authStatus' = 401 /\ UNCHANGED nextCalls
    /\ authPc' = "done"
    /\ UNCHANGED <<apiKey, headers, beyondAuth>>

\* The request is over.
Served ==
    /\ authPc = "done"
    /\ authPc' = "idle" /\ headers' = NoHeaders /\ nextCalls' = 0 /\ authStatus' = 0
    /\ UNCHANGED <<apiKey, beyondAuth>>

\* The process starts with one of the settings of API_KEY.
InitAuth ==
    /\ DsrInit /\ FmtIdle /\ CmpIdle /\ PropIdle /\ BrIdle /\ SrvIdle /\ UrlIdle
    /\ LateIdle
    /\ apiKey \in ApiKeys
    /\ NoRequest

NextAuth ==
    \/ \E x \in XApiKeys, a \in Authorizations : Request(x, a)
    \/ authMiddleware
    \/ Served

SpecAuth == InitAuth /\ [][NextAuth]_vars

\* ---------------------------------------------- buildApiUrl (dsr.js:256-269)

LowerCase ==
    <<"a", "b", "c", "d", "e", "f", "g", "h", "i", "j", "k", "l", "m",
      "n", "o", "p", "q", "r", "s", "t", "u", "v", "w", "x", "y", "z">>

UpperCase ==
    <<"A", "B", "C", "D", "E", "F", "G", "H", "I", "J", "K", "L", "M",
      "N", "O", "P", "Q", "R", "S", "T", "U", "V", "W", "X", "Y", "Z">>

Digits09 == {"0", "1", "2", "3", "4", "5", "6", "7", "8", "9"}

Letters == {LowerCase[i] : i \in 1..26} \cup {UpperCase[i] : i \in 1..26}

\* An upper-casing that leaves every character as it is.
toUpperCaseVerbatim(cs) == cs

\* String.prototype.toUpperCase on the letters a-z: each small letter becomes
\* its capital, every other character stays.
toUpperCase(cs) ==
    [i \in 1..Len(cs) |->
        IF \E k \in 1..26 : LowerCase[k] = cs[i]
        THEN UpperCase[CHOOSE k \in 1..26 : LowerCase[k] = cs[i]]
        ELSE cs[i]]

\* The application/x-www-form-urlencoded serializer behind URLSearchParams'
\* toString: letters, digits and * - . _ stay, a space becomes +, any other
\* character its percent code.
Escape(c) ==
    IF c \in Letters \cup Digits09 \cup {"*", "-", ".", "_"} THEN <<c>>
    ELSE IF c = " " THEN <<"+">>
    ELSE CASE c = "&" -> <<"%", "2", "6">>
           [] c = "=" -> <<"%", "3", "D">>
           [] c = "+" -> <<"%", "2", "B">>
           [] c = "%" -> <<"%", "2", "5">>
           [] c = "/" -> <<"%", "2", "F">>

RECURSIVE Encode(_)
Encode(cs) == IF cs = <<>> THEN <<>> ELSE Escape(Head(cs)) \o Encode(Tail(cs))

\* dsr.js:257-266, the parameters in the order of the object literal. A name
\* is one element of the string, a value its characters.
Params(token, suburb, state, postcode) ==
    << <<"access_token", token>>,
       <<"state", toUpperCase(state)>>,
       <<"postCode", postcode>>,
       <<"locality", toUpperCase(suburb)>>,
       <<"propTypeCode", <<"H">> >>,
       <<"requestType", <<"D", "S", "R">> >>,
       <<"captchaResponse", <<>> >>,
       <<"status", <<"n", "o", "R", "e", "c", "a", "p">> >> >>

\* URLSearchParams.prototype.toString: name=value joined by &.
RECURSIVE Serialize(_)
Serialize(ps) ==
    IF ps = <<>> THEN <<>>
    ELSE <<Head(ps)[1], "=">> \o Encode(Head(ps)[2])
         \o (IF Len(ps) > 1 THEN <<"&">> ELSE <<>>) \o Serialize(Tail(ps))

\* dsr.js:268; the first element stands for the endpoint up to the "?".
buildApiUrl(token, suburb, state, postcode) ==
    <<"https://dsrdata.com.au/DSRWeb/secure/getAllMktStats.json?">>
    \o Serialize(Params(token, suburb, state, postcode))

\* The tokens, suburbs, states and postcodes buildApiUrl is applied to: names
\* in several spellings of case, with a space and with characters that the
\* query syntax reserves.
Tokens == {<<"a", "1">>, <<"f", "-", "2">>}

Suburbs ==
    {<<"a", "b">>, <<"A", "b">>, <<"A", "B">>, <<"a", " ", "b">>, <<"a", "&", "b">>,
     <<"b", "=", "+">>}

States == {<<"w", "a">>, <<"W", "A">>, <<"W", "a">>, <<"n", "/">>}

Postcodes == {<<"2", "1">>, <<"0", "2">>, <<"2", " ">>}

\* dsr.js:208 and 229: scrapeStockOnMarket builds the URL of a request.
BuildUrl(token, suburb, state, postcode) ==
    /\ args' = [token |-> token, suburb |-> suburb, state |-> state,
                postcode |-> postcode]
    /\ url' = buildApiUrl(token, suburb, state, postcode)
    /\ UNCHANGED <<beyondUrl>>

NextUrl ==
    \E t \in Tokens, s \in Suburbs, st \in States, pcd \in Postcodes : BuildUrl(t, s, st, pcd)

SpecUrl == Init /\ [][NextUrl]_vars

\* ------------------------------------------ the post-login wait (dsr.js:79-83)

\* The granularity of the clock of the wait: a second.
RaceTick == MAX_WAIT \div 5

\* When, after the click on the login button, the URL changes to the products
\* pages and when the login form disappears; Never for a login that failed.
SignalTimes == {1000, 3000, 5000, 8000, 15000, Never}

\* A Playwright wait with a timeout: fulfilled when its signal comes in time,
\* rejected with a TimeoutError when the timeout runs out first.
WaitFor(who, signalAt, timeout) ==
    IF signalAt <= timeout
    THEN [who |-> who, at |-> signalAt, ok |-> TRUE]
    ELSE [who |-> who, at |-> timeout, ok |-> FALSE]

\* promise.catch(() => {}): a rejection becomes a fulfilment.
Caught(m) == [m EXCEPT !.ok = TRUE]

\* page.waitForTimeout(ms): fulfilled after ms.
Timer(ms) == [who |-> "timeout", at |-> ms, ok |-> TRUE]

\* dsr.js:79-83, the three promises handed to Promise.race.
RaceMembers(urlAt, hiddenAt) ==
    <<Caught(WaitFor("url", urlAt, URL_TIMEOUT)),
      Caught(WaitFor("hidden", hiddenAt, HIDDEN_TIMEOUT)),
      Timer(MAX_WAIT)>>

\* Promise.all in the place of Promise.race: it settles with the first
\* rejection, or else when the last member is fulfilled.
PromiseAll(ms) ==
    LET bad == {i \in 1..Len(ms) : ~ms[i].ok}
        pick(S) == CHOOSE i \in S : \A j \in S : ms[i].at < ms[j].at \/ (ms[i].at = ms[j].at /\ i <= j)
        last == CHOOSE i \in 1..Len(ms) : \A j \in 1..Len(ms) : ms[i].at > ms[j].at \/ (ms[i].at = ms[j].at /\ i >= j)
    IN IF bad # {} THEN ms[pick(bad)] ELSE ms[last]

\* Promise.race: it settles as the first member to settle does, the earlier
\* in the list when two settle together.
PromiseRace(ms) ==
    LET first == CHOOSE i \in 1..Len(ms) :
                    \A j \in 1..Len(ms) :
                        ms[i].at < ms[j].at \/ (ms[i].at = ms[j].at /\ i <= j)
    IN ms[first]

\* dsr.js:75-79: the login button is clicked and the race is awaited.
RaceStart(urlAt, hiddenAt) ==
    /\ race.pc = "idle"
    /\ race' = [pc |-> "waiting", clock |-> 0, urlAt |-> urlAt, hiddenAt |-> hiddenAt,
                winner |-> "none", at |-> 0]
    /\ UNCHANGED beyondRace

\* Time passes while the race is pending.
RaceWait ==
    /\ race.pc = "waiting"
    /\ race.clock < PromiseRace(RaceMembers(race.urlAt, race.hiddenAt)).at
    /\ race' = [race EXCEPT !.clock = @ + RaceTick]
    /\ UNCHANGED beyondRace

\* dsr.js:79-88: the race settles; fulfilled, getSession runs on to the
\* navigation to the suburb analyser, rejected, it throws.
RaceSettle ==
    /\ race.pc = "waiting"
    /\ LET r == PromiseRace(RaceMembers(race.urlAt, race.hiddenAt))
       IN /\ race.clock = r.at
          /\ race' = [race EXCEPT !.pc = IF r.ok THEN "goto" ELSE "throw",
                                  !.winner = r.who, !.at = race.clock]
    /\ UNCHANGED beyondRace

\* The login sequence is over; another one may begin.
RaceOver ==
    /\ race.pc \in {"goto", "throw"}
    /\ race' = [pc |-> "idle", clock |-> 0, urlAt |-> Never, hiddenAt |-> Never,
                winner |-> "none", at |-> 0]
    /\ UNCHANGED beyondRace

NextRace ==
    \/ \E u, h \in SignalTimes : RaceStart(u, h)
    \/ RaceWait
    \/ RaceSettle
    \/ RaceOver

SpecRace == Init /\ [][NextRace]_vars

\* ------------------------------------ the token capture (dsr.js:58-68, 124-181)

\* [a-f0-9] and [a-f0-9-].
HexChars == {"a", "b", "c", "d", "e", "f", "0", "1", "2", "3", "4", "5", "6", "7", "8", "9"}
HexDashChars == HexChars \cup {"-"}

\* n times the character c.
RECURSIVE Rep(_, _)
Rep(c, n) == IF n = 0 THEN <<>> ELSE <<c>> \o Rep(c, n - 1)

\* The first n characters of cs.
Take(cs, n) == SubSeq(cs, 1, n)

\* [a-f0-9]{8}-[a-f0-9]{4}-[a-f0-9]{4}-[a-f0-9]{4}-[a-f0-9]{12} (dsr.js:63, 137).
IsUuid(cs) ==
    /\ Len(cs) = 36
    /\ \A i \in 1..36 :
          IF i \in {9, 14, 19, 24} THEN cs[i] = "-" ELSE cs[i] \in HexChars

\* [a-f0-9-]{36} (dsr.js:129, 130, 168).
IsHex36(cs) == Len(cs) = 36 /\ \A i \in 1..36 : cs[i] \in HexDashChars

\* [a-f0-9-]* at the start of cs, greedy (dsr.js:151).
RECURSIVE HexRun(_)
HexRun(cs) ==
    IF cs # <<>> /\ Head(cs) \in HexDashChars THEN <<Head(cs)>> \o HexRun(Tail(cs)) ELSE <<>>

Found(value, source) == [found |-> TRUE, value |-> value, source |-> source]

\* dsr.js:63-65, the listener: v is what follows "access_token=" in the URL of
\* a request; the pattern is not anchored, so the first 36 characters decide.
ListenerMatch(v) ==
    IF Len(v) >= 36 /\ IsUuid(Take(v, 36)) THEN Found(Take(v, 36), "request") ELSE NoCapture

\* dsr.js:129-130: v is the string in window.accessToken or window.access_token
\* (the empty string for a variable that is no string).
WindowMatch(v) == IF IsHex36(v) THEN Found(v, "window") ELSE NoCapture

\* dsr.js:137: v is the quoted value assigned to access_token in a script, in
\* the form access_token = "v" or access_token: "v"; the closing quote has to
\* follow the 36 characters.
ScriptMatch(form, v) ==
    IF form \in {"assign", "property"} /\ IsUuid(v) THEN Found(v, "script") ELSE NoCapture

\* dsr.js:150-152: v is what follows "access_token=" in the current URL.
UrlMatch(v) == IF HexRun(v) # <<>> THEN Found(HexRun(v), "url") ELSE NoCapture

\* dsr.js:168: the pattern lets quotes, colons and white space, but no equals
\* sign, stand between the name and the value: the forms access_token: "v" and
\* "access_token":"v"; the closing quote is optional.
Script2Match(form, v) ==
    IF form \in {"property", "json"} /\ Len(v) >= 36 /\ IsHex36(Take(v, 36))
    THEN Found(Take(v, 36), "script2")
    ELSE NoCapture

\* a || b for two captures.
OrCapture(a, b) == IF a.found THEN a ELSE b

\* dsr.js:58-173: the sources in the order getSession consults them.
CaptureToken(page) ==
    OrCapture(ListenerMatch(page.request),
    OrCapture(WindowMatch(page.window),
    OrCapture(ScriptMatch(page.form, page.script),
    OrCapture(UrlMatch(page.url),
              Script2Match(page.form, page.script)))))

\* Texts a page can hold for a token: a UUID, a UUID followed by more hex
\* digits, a UUID in upper case, 36 hex digits without dashes, a short hex
\* word, nothing.
SampleUuid ==
    Rep("a", 8) \o <<"-">> \o Rep("0", 4) \o <<"-">> \o Rep("4", 4) \o <<"-">>
    \o Rep("b", 4) \o <<"-">> \o Rep("9", 12)

TokenTexts ==
    {SampleUuid, SampleUuid \o <<"f", "f">>,
     Rep("A", 8) \o <<"-">> \o Rep("0", 4) \o <<"-">> \o Rep("4", 4) \o <<"-">>
        \o Rep("B", 4) \o <<"-">> \o Rep("9", 12),
     Rep("c", 36), <<"a", "b", "c">>, <<>>}

Pages ==
    [request : {SampleUuid, <<"a", "b", "c">>, <<>>},
     window : TokenTexts,
     form : {"assign", "property", "json"},
     script : TokenTexts,
     url : TokenTexts]

\* dsr.js:58-188: the login sequence runs on a page, with JSESSIONID in its
\* jar; a token, if one is found, is stored in the session, else getSession
\* throws (dsr.js:175-181).
Capture(page) ==
    /\ capture.pc = "idle"
    /\ LET token == CaptureToken(page)
       IN capture' = [pc |-> IF token.found THEN "stored" ELSE "thrown",
                      page |-> page, token |-> token]
    /\ UNCHANGED beyondCapture

\* The login sequence is over.
CaptureOver ==
    /\ capture.pc # "idle"
    /\ capture' = [pc |-> "idle", page |-> NoPage, token |-> NoCapture]
    /\ UNCHANGED beyondCapture

NextCapture ==
    \/ \E page \in Pages : Capture(page)
    \/ CaptureOver

SpecCapture == Init /\ [][NextCapture]_vars

\* ------------------- the vacancy scraper (sqm-vacancy.js, src/unnamed/part_000)

\* sqm-vacancy.js:15-21: the call, with a browser of the caller's or without
\* one; a browser passed in is open.
SqmEnter(r, existingBrowser) ==
    /\ sqmCall[r].pc = "idle"
    /\ sqmCall' = [sqmCall EXCEPT ![r] =
                  [NoSqmCall EXCEPT !.pc = IF existingBrowser THEN "context" ELSE "launch",
                                    !.existingBrowser = existingBrowser,
                                    !.callerOpen = existingBrowser]]
    /\ UNCHANGED beyondSqm

\* sqm-vacancy.js:21-27: without a browser one is launched and ownBrowser
\* set; a launch that rejects is caught with ownBrowser still false.
SqmChromiumLaunch(r, ok) ==
    /\ sqmCall[r].pc = "launch"
    /\ sqmCall' = [sqmCall EXCEPT ![r] =
                  IF ok
                  THEN [@ EXCEPT !.pc = "context", !.ownBrowser = TRUE, !.ownOpen = TRUE]
                  ELSE [@ EXCEPT !.pc = "catch"]]
    /\ UNCHANGED beyondSqm

\* sqm-vacancy.js:29-33: browser.newContext() and context.newPage(); either
\* can reject, the second with the context open.
SqmNewContext(r, outcome) ==
    /\ sqmCall[r].pc = "context"
    /\ sqmCall' = [sqmCall EXCEPT ![r] =
                  CASE outcome = "page" -> [@ EXCEPT !.pc = "read", !.context = "open"]
                    [] outcome = "noPage" -> [@ EXCEPT !.pc = "catch", !.context = "open"]
                    [] OTHER -> [@ EXCEPT !.pc = "catch"]]
    /\ UNCHANGED beyondSqm

\* sqm-vacancy.js:35-89: goto, the wait and page.evaluate give a rate, give
\* none, or throw (a navigation timeout, a page that crashed).
SqmRead(r, outcome) ==
    /\ sqmCall[r].pc = "read"
    /\ sqmCall' = [sqmCall EXCEPT ![r] =
                  IF outcome = "throws"
                  THEN [@ EXCEPT !.pc = "catch"]
                  ELSE [@ EXCEPT !.pc = "contextClose", !.rate = outcome]]
    /\ UNCHANGED beyondSqm

\* sqm-vacancy.js:91: await context.close(), which may reject.
SqmContextClose(r, ok) ==
    /\ sqmCall[r].pc = "contextClose"
    /\ sqmCall' = [sqmCall EXCEPT ![r] =
                  IF ok
                  THEN [@ EXCEPT !.pc = "browserClose", !.context = "closed"]
                  ELSE [@ EXCEPT !.pc = "catch"]]
    /\ UNCHANGED beyondSqm

\* sqm-vacancy.js:92-118: if (ownBrowser) await browser.close(), then the
\* value is returned by the rate read; a close that rejects is caught.
SqmBrowserClose(r, ok) ==
    /\ sqmCall[r].pc = "browserClose"
    /\ sqmCall' = [sqmCall EXCEPT ![r] =
                  IF sqmCall[r].ownBrowser /\ ~ok
                  THEN [@ EXCEPT !.pc = "catch"]
                  ELSE [@ EXCEPT !.pc = "done",
                                 !.ownOpen = FALSE,
                                 !.ret = IF sqmCall[r].rate = "rate" THEN "success" ELSE "norate"]]
    /\ UNCHANGED beyondSqm

\* sqm-vacancy.js:119-125: the catch closes the browser only when it is the
\* function's own, which closes the contexts in it; a rejection of that
\* close is swallowed. Nothing else is closed. The failure is returned.
SqmCatch(r, ok) ==
    /\ sqmCall[r].pc = "catch"
    /\ sqmCall' = [sqmCall EXCEPT ![r] =
                  IF sqmCall[r].ownBrowser /\ ok
                  THEN [@ EXCEPT !.pc = "done", !.ret = "error", !.ownOpen = FALSE,
                                 !.context = IF @ = "open" THEN "closed" ELSE @]
                  ELSE [@ EXCEPT !.pc = "done", !.ret = "error"]]
    /\ UNCHANGED beyondSqm

\* The caller has its value.
SqmOver(r) ==
    /\ sqmCall[r].pc = "done"
    /\ sqmCall' = [sqmCall EXCEPT ![r] = NoSqmCall]
    /\ UNCHANGED beyondSqm

\* Calls overlap at their awaits.
NextSqm ==
    \E r \in Procs :
       \/ \E existingBrowser \in BOOLEAN : SqmEnter(r, existingBrowser)
       \/ \E ok \in BOOLEAN : SqmChromiumLaunch(r, ok)
       \/ \E outcome \in {"page", "noPage", "noContext"} : SqmNewContext(r, outcome)
       \/ \E outcome \in {"rate", "norate", "throws"} : SqmRead(r, outcome)
       \/ \E ok \in BOOLEAN : SqmContextClose(r, ok)
       \/ \E ok \in BOOLEAN : SqmBrowserClose(r, ok)
       \/ \E ok \in BOOLEAN : SqmCatch(r, ok)
       \/ SqmOver(r)

SpecSqm == Init /\ [][NextSqm]_vars

\* ------------------------------------------------------------------ claims

\* The statuses the provider uses to deny authorization, and a 2xx status, as
\* the claims speak of them.
DeniedStatuses == {401, 403}
SuccessStatuses == {200}

\* Caller p enters scrapeStockOnMarket, and so its first getSession, in this step.
FirstGetSession(p) == pc[p] = "idle" /\ pc'[p] # "idle"

\* Caller p enters getSession in this step (dsr.js:207 or dsr.js:228).
GetSessionStarts(p) ==
    \/ FirstGetSession(p)
    \/ pc[p] = "fetch" /\ reauths'[p] = reauths[p] + 1

\* Caller p's getSession has just been served from the cache.
ServedFromCache(p) == pc'[p] = "fetch" /\ fromCache'[p]

\* Caller p's getSession has just gone on to a login sequence.
StartsLogin(p) == pc'[p] = "getPage" /\ ~fromCache'[p] /\ session'[p] = NoSession

\* C1: of two getSession calls made one after the other, the second starting
\* within SESSION_TTL of the store of the session the first returned and with
\* no invalidation in between, the second opens no browsing context, starts no
\* login and returns the very session the first returned; and no getSession
\* call opens more than one context, so the two perform at most one login.
C1_SessionReuse ==
    [][\A p \in Procs :
         /\ ( /\ FirstGetSession(p)
              /\ prevRet # 0
              /\ ~(acquired.login = prevRet /\ now >= acquired.at + SESSION_TTL) )
            => ( /\ acquired.login = prevRet
                 /\ ServedFromCache(p)
                 /\ session'[p].login = prevRet
                 /\ nLogins' = nLogins
                 /\ openCtx' = openCtx )
         /\ (ctx'[p] # ctx[p] /\ ctx'[p] # 0) => (ctx[p] = 0 /\ pc[p] = "getPage")
      ]_vars

\* C1 witness: a later call is being served, after time has passed, the one
\* session the only login so far stored.
C1_Witness ==
    \E p \in Procs :
        /\ pc[p] = "fetch" /\ fromCache[p] /\ attempt[p] = 1
        /\ session[p].login = prevRet /\ acquired.login = prevRet
        /\ now > acquired.at /\ now < acquired.at + SESSION_TTL
        /\ nLogins = 1

\* C2: a getSession call that starts when the cached session is SESSION_TTL or
\* more past its store goes on to a login sequence and holds no session; the
\* session a login sequence returns is the one built from its own, newly
\* created context, never one that was in the cache before.
C2_Expiry ==
    [][\A p \in Procs :
         /\ ( /\ GetSessionStarts(p)
              /\ cachedSession # NoSession
              /\ acquired.login = cachedSession.login
              /\ now >= acquired.at + SESSION_TTL )
            => StartsLogin(p)
         /\ (ctx'[p] # ctx[p] /\ ctx'[p] # 0)
            => (ctx'[p] > nLogins /\ ctx'[p] > cachedSession.login)
         /\ (~fromCache'[p] /\ session'[p] # session[p] /\ session'[p] # NoSession)
            => (session'[p].login = ctx[p] /\ session'[p] # cachedSession)
      ]_vars

\* C2 witness: a call went on to log in although a never-invalidated session,
\* by now expired, is still in the cache.
C2_Witness ==
    \E p \in Procs :
        /\ pc[p] = "getPage" /\ attempt[p] = 1
        /\ cachedSession # NoSession
        /\ acquired.login = cachedSession.login
        /\ now >= acquired.at + SESSION_TTL

\* Caller p is inside a login sequence: its browsing context is open.
InLogin(p) == ctx[p] # 0

\* C3: at most one login sequence is executing at any time.
C3_SingleFlight == Cardinality({p \in Procs : InLogin(p)}) <= 1

\* C4: an invocation whose first response was an authorization denial and
\* whose second was a success with a stats payload has returned the normalized
\* success result, after exactly one forced getSession that logged in anew and
\* exactly two requests.
C4_RetryThenSuccess ==
    \A p \in Procs :
        ( /\ Len(statuses[p]) >= 2
          /\ statuses[p][1] \in DeniedStatuses
          /\ statuses[p][2] \in SuccessStatuses
          /\ body[p] = "stats" )
        => ( /\ pc[p] = "done"
             /\ result[p] = [success |-> TRUE, error |-> "none", data |-> "MarketStats"]
             /\ reauths[p] = 1
             /\ ~fromCache[p]
             /\ reqs[p] = 2
             /\ Len(statuses[p]) = 2 )

\* C4 witness: an invocation answered 401 then 200 returned success.
C4_Witness ==
    \E p \in Procs :
        pc[p] = "done" /\ statuses[p] = <<401, 200>> /\ body[p] = "stats" /\ result[p].success

\* The failure the spec calls SessionExpired: the error of a denied response.
IsSessionExpired(res) ==
    ~res.success /\ res.error \in {"DSR API returned 401", "DSR API returned 403"}

\* C5: an invocation whose first two responses were both authorization
\* denials has failed with SessionExpired, after exactly one forced getSession
\* and exactly two requests.
C5_RetryThenFail ==
    \A p \in Procs :
        ( /\ Len(statuses[p]) >= 2
          /\ statuses[p][1] \in DeniedStatuses
          /\ statuses[p][2] \in DeniedStatuses )
        => ( /\ pc[p] = "done"
             /\ IsSessionExpired(result[p])
             /\ reauths[p] = 1
             /\ reqs[p] = 2
             /\ Len(statuses[p]) = 2 )

\* C5 witness: an invocation answered 401 then 403 has failed.
C5_Witness ==
    \E p \in Procs :
        pc[p] = "done" /\ statuses[p] = <<401, 403>> /\ IsSessionExpired(result[p])

\* The lifecycle state of the session cache.
CachePhase(cs, expiry, t) ==
    IF cs = NoSession THEN "Unauthenticated"
    ELSE IF t < expiry THEN "Active" ELSE "Expired"

\* Caller p's login sequence, holding a captured token, stores its session in
\* this step (Authenticating -> TokenCaptured -> Active).
StoresSession(p) ==
    /\ pc[p] \in {"cookies", "script2"}
    /\ accessToken'[p] # NoToken
    /\ accessToken'[p].login = ctx[p]
    /\ cachedSession' = [login |-> ctx[p], accessToken |-> ctx[p], cookies |-> ctx[p]]
    /\ cachedSession' # cachedSession

C7_ServedSessionValid ==
    [][\A p \in Procs :
         (GetSessionStarts(p) /\ ServedFromCache(p))
         => ( /\ acquired.login = session'[p].login
              /\ now < acquired.at + SESSION_TTL
              /\ ~denied )
      ]_vars

\* The error getSession throws for a jar without JSESSIONID (dsr.js:160).
NoCookieError == "Failed to capture JSESSIONID after login"

\* C8: when context.cookies() shows no JSESSIONID, getSession throws, with or
\* without a captured token, the invocation ends in a failure, and neither
\* step writes the session cache.
C8_CookieRequired ==
    [][\A p \in Procs :
         /\ (pc[p] = "cookies" /\ jar'[p] = "absent")
            => ( /\ pc'[p] = "close"
                 /\ gsError'[p] = NoCookieError
                 /\ session'[p] = NoSession
                 /\ cachedSession' = cachedSession
                 /\ sessionExpiry' = sessionExpiry )
         /\ (pc[p] = "close" /\ jar[p] = "absent" /\ pc'[p] # "close")
            => ( /\ pc'[p] = "done"
                 /\ ~result'[p].success
                 /\ cachedSession' = cachedSession
                 /\ sessionExpiry' = sessionExpiry )
      ]_vars

\* C8 witness: a login sequence that holds a captured token is about to throw
\* for the missing cookie, and the cache is still empty.
C8_Witness ==
    \E p \in Procs :
        /\ pc[p] = "close" /\ jar[p] = "absent"
        /\ accessToken[p] # NoToken
        /\ gsError[p] = NoCookieError
        /\ cachedSession = NoSession

\* s is an initial part of t.
IsPrefix(s, t) == Len(s) <= Len(t) /\ \A i \in 1..Len(s) : s[i] = t[i]

\* C9: a fallback source is consulted only while the login sequence holds no
\* token from an earlier source, and in the order search, page scripts, URL
\* (then the scripts once more); a sequence that ends without a token throws
\* and leaves the cache alone.
C9_FallbackChain ==
    [][\A p \in Procs :
         /\ Len(tried'[p]) > Len(tried[p])
            => (accessToken[p] = NoToken /\ IsPrefix(tried'[p], FallbackChain))
         /\ (pc[p] = "script2" /\ pc'[p] # "script2" /\ accessToken'[p] = NoToken)
            => ( /\ gsError'[p] = "Failed to capture access_token"
                 /\ cachedSession' = cachedSession
                 /\ sessionExpiry' = sessionExpiry )
      ]_vars

\* The errors the spec calls UpstreamError.
UpstreamErrors == {"DSR API returned 500", "invalid json", "No stats in DSR response"}

\* Caller p's invocation ends in this step as an upstream failure after one
\* request, with no forced getSession, no login and no write to the cache.
FailsUpstreamUntried(p) ==
    /\ pc'[p] = "done"
    /\ ~result'[p].success
    /\ result'[p].error \in UpstreamErrors
    /\ reqs'[p] = 1
    /\ reauths'[p] = 0
    /\ nLogins' = nLogins
    /\ cachedSession' = cachedSession
    /\ sessionExpiry' = sessionExpiry

\* C10: a first response that is neither a success nor an authorization
\* denial, or a first payload that is not JSON or holds no stats, ends the
\* invocation at once as an upstream failure: one request, no retry, no
\* re-authentication, the cache as it was.
C10_UpstreamNotRetried ==
    [][\A p \in Procs :
         /\ ( /\ pc[p] = "fetch"
              /\ Len(statuses[p]) = 0
              /\ Len(statuses'[p]) = 1
              /\ statuses'[p][1] \notin DeniedStatuses \cup SuccessStatuses )
            => FailsUpstreamUntried(p)
         /\ ( /\ pc[p] = "json"
              /\ Len(statuses[p]) = 1
              /\ body'[p] \in {"malformed", "noStats"} )
            => FailsUpstreamUntried(p)
      ]_vars

\* C10 witness: an invocation answered 500 has failed after its one request
\* and the session it used is still cached.
C10_Witness ==
    \E p \in Procs :
        /\ pc[p] = "done" /\ statuses[p] = <<500>>
        /\ result[p].error = "DSR API returned 500"
        /\ reqs[p] = 1 /\ reauths[p] = 0
        /\ cachedSession = session[p] /\ cachedSession # NoSession

\* The results formatResponse has given for the payload so far.
Outs == {formatted[i].out : i \in 1..Len(formatted)}

\* C11: a payload in which response.all_mkt_stats is absent (json null, no
\* response, a null response, no stats, null stats) is normalized to a
\* failure value that carries no MarketStats record.
C11_NoStatsFails ==
    raw.shape # "stats"
    => \A out \in Outs :
          /\ ~out.success
          /\ out.error = "No stats in DSR response"
          /\ "data" \notin DOMAIN out

\* C11 witness: a payload without a response object has been normalized to a
\* failure.
C11_Witness ==
    /\ raw.shape = "noResponse"
    /\ Outs # {}
    /\ \A out \in Outs : ~out.success

\* A field value that is a number or a string holding one.
IsNumeric(x) ==
    /\ x.t \in {"number", "string"}
    /\ x.t = "string" => TrimLeft(x.s) # <<>>
    /\ ToNumber(x).t = "number"

\* The amount a numeric field value stands for, in hundredths.
Amount(x) == ToNumber(x).v

\* C15: for a numeric SOM_PERC the stock rating is Low up to and including
\* 1.50, Average above that up to and including 3.00, and High above; for a
\* numeric DOM the rating is Fast up to and including 25, Average up to and
\* including 45, Slow above.
C15_ClosedThresholds ==
    raw.shape = "stats"
    => \A out \in Outs :
          /\ IsNumeric(raw.stats.SOM_PERC)
             => out.data.stock_rating =
                   (IF Amount(raw.stats.SOM_PERC) <= 150 THEN "Low"
                    ELSE IF Amount(raw.stats.SOM_PERC) <= 300 THEN "Average"
                    ELSE "High")
          /\ IsNumeric(raw.stats.DOM)
             => out.data.dom_rating =
                   (IF Amount(raw.stats.DOM) <= 2500 THEN "Fast"
                    ELSE IF Amount(raw.stats.DOM) <= 4500 THEN "Average"
                    ELSE "Slow")

\* C15 witness: stock of exactly 1.50 rated Low together with 45 days rated
\* Average.
C15_Witness ==
    /\ raw.shape = "stats"
    /\ raw.stats.SOM_PERC = Num(150) /\ raw.stats.DOM = Num(4500)
    /\ \E out \in Outs : out.data.stock_rating = "Low" /\ out.data.dom_rating = "Average"

\* C16: for a numeric VACANCY the rating is Low up to and including 2.0,
\* Average up to and including 3.0, High above; for a numeric YIELD it is
\* Strong from 5, Average from 3 and below 5, Low below 3; each is one of its
\* three ratings.
C16_VacancyYieldRatings ==
    raw.shape = "stats"
    => \A out \in Outs :
          /\ IsNumeric(raw.stats.VACANCY)
             => out.data.vacancy_rating =
                   (IF Amount(raw.stats.VACANCY) <= 200 THEN "Low"
                    ELSE IF Amount(raw.stats.VACANCY) <= 300 THEN "Average"
                    ELSE "High")
          /\ IsNumeric(raw.stats.YIELD)
             => out.data.yield_rating =
                   (IF Amount(raw.stats.YIELD) >= 500 THEN "Strong"
                    ELSE IF Amount(raw.stats.YIELD) >= 300 THEN "Average"
                    ELSE "Low")
          /\ out.data.stock_rating \in {"Low", "Average", "High"}
          /\ out.data.dom_rating \in {"Fast", "Average", "Slow"}
          /\ out.data.vacancy_rating \in {"Low", "Average", "High"}
          /\ out.data.yield_rating \in {"Strong", "Average", "Low"}

\* C16 witness: a vacancy of 3.01 rated High together with a yield of exactly
\* 5 rated Strong.
C16_Witness ==
    /\ raw.shape = "stats"
    /\ raw.stats.VACANCY = Num(301) /\ raw.stats.YIELD = Num(500)
    /\ \E out \in Outs : out.data.vacancy_rating = "High" /\ out.data.yield_rating = "Strong"

\* t occurs in cs as a run of consecutive characters.
IsInfix(t, cs) ==
    \E i \in 0..(Len(cs) - Len(t)) : SubSeq(cs, i + 1, i + Len(t)) = t

\* A text made from NaN or from undefined.
Degenerate(cs) ==
    \/ IsInfix(<<"N", "a", "N">>, cs)
    \/ IsInfix(<<"u", "n", "d", "e", "f", "i", "n", "e", "d">>, cs)

\* The fields of MarketStats that are texts made from one source field.
TextFields(d) ==
    {d.stock_on_market, d.days_on_market, d.vendor_discounting, d.vacancy_rate,
     d.gross_rental_yield, d.dsr_score, d.median_12_months, d.typical_value,
     d.renters_percentage, d.auction_clearance_rate, d.online_search_interest,
     d.statistical_reliability}

\* C17: with all_mkt_stats present, normalization succeeds and no output
\* field is a text made from NaN or undefined, whichever source field is
\* missing or not a number.
C17_MissingFieldDefaults ==
    raw.shape = "stats"
    => \A out \in Outs :
          /\ out.success
          /\ \A cs \in TextFields(out.data) : ~Degenerate(cs)

C19_DocumentedExample ==
    ( /\ raw.shape = "stats"
      /\ raw.stats.SOM_PERC = Str(<<"0", ".", "9", "5">>)
      /\ raw.stats.DOM = Num(3600)
      /\ raw.stats.VACANCY = Str(<<"1", ".", "3", "2">>)
      /\ raw.stats.YIELD = Num(241)
      /\ raw.stats.MEDIAN_12 = Num(192661000) )
    => \A out \in Outs :
          /\ out.success
          /\ out.data.stock_on_market = <<"0", ".", "9", "5", "%">>
          /\ out.data.stock_rating = "Low"
          /\ out.data.days_on_market = <<"3", "6">>
          /\ out.data.dom_rating = "Average"
          /\ out.data.vacancy_rate = <<"1", ".", "3", "2", "%">>
          /\ out.data.vacancy_rating = "Low"
          /\ out.data.gross_rental_yield = <<"2", ".", "4", "1", "%">>
          /\ out.data.yield_rating = "Low"
          /\ out.data.median_12_months =
                <<"$", "1", ",", "9", "2", "6", ",", "6", "1", "0">>

\* C19 witness: the documented example has been normalized.
C19_Witness ==
    /\ raw = Payload("stats", DocumentedStats)
    /\ \E out \in Outs : out.success /\ out.data.days_on_market = <<"3", "6">>

\* C12: scrapeComparables always settles by returning one entry per address,
\* in the order of the addresses, whatever the login and the items did.
C12_BatchNeverFails ==
    cmpPc = "done"
    => /\ cmpRet.state = "returned"
       /\ cmpRet.success
       /\ Len(cmpRet.data) = Len(addresses)
       /\ \A i \in 1..Len(addresses) : cmpRet.data[i].address = addresses[i]

\* C13: once the login has succeeded, entry i carries address i, is a failure
\* with an error exactly when the search or the extraction of item i failed,
\* and a batch that returns its results has an entry for every address.
C13_BatchIsolation ==
    /\ \A i \in 1..Len(results) :
          /\ results[i].address = addresses[i]
          /\ results[i].success <=> i \notin failed
          /\ ~results[i].success => results[i].error # "none"
    /\ (cmpPc = "done" /\ cmpRet.state = "returned" /\ cmpRet.success)
       => Len(cmpRet.data) = Len(addresses)

\* C14: a batch creates one context and logs in once, the loop moves from an
\* address to the next one only, and only when the entry of the address has
\* been recorded, and an entry is recorded only for the address the loop is at.
C14_OneLoginSequential ==
    [][/\ cmpCtx' <= 1 /\ cmpLogins' <= 1
       /\ (idx >= 1 /\ idx' # idx)
          => ( /\ idx' = idx + 1
               /\ Len(results) = idx
               /\ cmpCtx' = cmpCtx /\ cmpLogins' = cmpLogins )
       /\ cmpPc' \in {"search", "extract"}
          => (Len(results') = idx' - 1 /\ cmpCtx' = 1 /\ cmpLogins' = 1)
       /\ Len(results') > Len(results) => Len(results') = idx
      ]_vars

\* C14 witness: a batch of three addresses has returned three entries after
\* one login in one context.
C14_Witness ==
    /\ cmpPc = "done" /\ cmpRet.success
    /\ Len(addresses) = 3 /\ Len(cmpRet.data) = 3
    /\ cmpCtx = 1 /\ cmpLogins = 1

C21_MarketStatus ==
    (propPc \in {"close", "done"} /\ propRet.state = "returned" /\ propRet.success) =>
        /\ data.market_status \in {"OFF Market", "ON Market"}
        /\ (data.market_status = "OFF Market") <=> (data.sold_price # "")
        /\ (data.sold_price # "") <=> (pageHas.sale \in {"price", "both"})

\* A record returned for a page whose sale section holds a price and a date.
C21_Witness ==
    /\ propPc = "done" /\ propRet.state = "returned" /\ propRet.success
    /\ pageHas.sale = "both"
    /\ data.market_status = "OFF Market"

\* C22: every navigation, wait and network step is bounded by a timeout, so an
\* invocation of scrapeStockOnMarket that has started eventually completes
\* with a result or a failure, even if the provider never responds to the
\* stats request.
C22_NeverHangs ==
    \A p \in Procs : (pc[p] # "idle") ~> (pc[p] = "done")

\* C23: at most one browser process is live at any time: no browser process
\* is launched while a connected one exists or another is being launched,
\* under any interleaving of the requests that reach getPage or
\* scrapeSqmVacancy.
C23_SingleBrowser ==
    Cardinality(live) + Cardinality(Launching) <= 1

\* C24: every browsing context opened for getSession is closed by the time
\* the operation completes, on the success path and on every failure path,
\* failures while the page of the context is set up included: an open context
\* always belongs to a login sequence that is still under way.
C24_ContextsClosed ==
    \A k \in openCtx : \E p \in Procs : ctx[p] = k /\ pc[p] \notin {"idle", "done"}

\* The response exposes the failure of source f: it is an error response, or
\* its body says success:false, or its errors hold an entry of f, or (for an
\* item of a batch) an entry of its data says success:false.
Exposed(f) ==
    \/ response.status >= 400
    \/ ~response.body.success
    \/ "errors" \in DOMAIN response.body /\ \E e \in response.body.errors : e.source = f
    \/ f = "item" /\ \E i \in 1..Len(response.body.data) : ~response.body.data[i].success

\* C25: no failure is silently dropped: every failure of a data source that
\* occurred while a request was served is exposed by the response, as an
\* error or as an embedded success:false or error entry.
C25_NoFailureDropped ==
    srvPc = "done" => \A f \in failures : Exposed(f)

C29_GeneratorFailureTolerated ==
    /\ aiCalls <= 1
    /\ skipAiText => aiCalls = 0
    /\ (srvPc = "done" /\ "claude" \in failures) =>
          /\ response.status = 200 /\ response.body.success
          /\ \A f \in NarrativeFields : response.body.data[f] = <<>>
          /\ \A f \in StatFieldsOut : response.body.data[f] = OrEmpty(DataOf(dsrResult), f)
          /\ response.body.data["median_house_price"] =
                OrEmpty(DataOf(dsrResult), "median_12_months")

\* A suburb request answered with the stats after the generator failed.
C29_Witness ==
    /\ srvPc = "done" /\ "claude" \in failures /\ aiCalls = 1
    /\ dsrResult.success
    /\ response.body.data["stock_on_market"] = <<"0", ".", "9", "5", "%">>
    /\ response.body.data["suburb_overview"] = <<>>

\* The request carries the configured key in x-api-key or as a Bearer token
\* in Authorization.
CarriesKey ==
    \/ headers.xApiKey = apiKey
    \/ headers.authorization = Str(Bearer \o apiKey.s)

\* C27: when API_KEY is configured, next is called only for a request that
\* carries the key in x-api-key or as a Bearer token in Authorization, and
\* any other request is answered 401 without a call of next; when API_KEY is
\* not configured every request passes.
C27_OnlyKeyHoldersPass ==
    authPc = "done" =>
        IF Truthy(apiKey)
        THEN /\ nextCalls > 0 => CarriesKey
             /\ ~CarriesKey => (authStatus = 401 /\ nextCalls = 0)
        ELSE nextCalls = 1 /\ authStatus = 0

\* The pieces of cs between the occurrences of sep.
RECURSIVE SplitOn(_, _)
SplitOn(cs, sep) ==
    LET i == IndexOf(cs, <<sep>>)
    IN IF i = 0 THEN <<cs>>
       ELSE <<SubSeq(cs, 1, i - 1)>> \o SplitOn(SubSeq(cs, i + 1, Len(cs)), sep)

\* The character a percent code stands for.
Unescape(h, l) ==
    CASE <<h, l>> = <<"2", "6">> -> "&"
      [] <<h, l>> = <<"3", "D">> -> "="
      [] <<h, l>> = <<"2", "B">> -> "+"
      [] <<h, l>> = <<"2", "5">> -> "%"
      [] <<h, l>> = <<"2", "F">> -> "/"
      [] OTHER -> "?"

\* What a server reads out of an encoded value.
RECURSIVE Decode(_)
Decode(cs) ==
    IF cs = <<>> THEN <<>>
    ELSE IF Head(cs) = "+" THEN <<" ">> \o Decode(Tail(cs))
    ELSE IF Head(cs) = "%" /\ Len(cs) >= 3
         THEN <<Unescape(cs[2], cs[3])>> \o Decode(SubSeq(cs, 4, Len(cs)))
    ELSE <<Head(cs)>> \o Decode(Tail(cs))

\* The query of a URL as the sequence of its <<name, value>> pairs.
Query(u) ==
    LET parts == SplitOn(Tail(u), "&")
    IN [i \in 1..Len(parts) |->
          <<parts[i][1], Decode(SubSeq(parts[i], 3, Len(parts[i])))>>]

\* u is s with every small letter replaced by its capital.
IsUpperCased(u, s) ==
    /\ Len(u) = Len(s)
    /\ \A i \in 1..Len(s) :
          \/ u[i] = s[i] /\ \A k \in 1..26 : s[i] # LowerCase[k]
          \/ \E k \in 1..26 : s[i] = LowerCase[k] /\ u[i] = UpperCase[k]

\* s and t differ at most in the case of letters.
SameButCase(s, t) ==
    /\ Len(s) = Len(t)
    /\ \A i \in 1..Len(s) :
          \/ s[i] = t[i]
          \/ \E k \in 1..26 : {s[i], t[i]} = {LowerCase[k], UpperCase[k]}

\* C28: the URL of the stats request carries access_token = the token, state
\* and locality upper-cased, postCode unchanged and the fixed parameters
\* propTypeCode=H, requestType=DSR, captchaResponse empty, status=noRecap;
\* inputs that differ only in the letter case of state or suburb give the
\* same URL.
C28_UrlOfInputs ==
    url # <<>> =>
        LET q == Query(url)
        IN /\ Len(q) = 8
           /\ q[1] = <<"access_token", args.token>>
           /\ q[2][1] = "state" /\ IsUpperCased(q[2][2], args.state)
           /\ q[3] = <<"postCode", args.postcode>>
           /\ q[4][1] = "locality" /\ IsUpperCased(q[4][2], args.suburb)
           /\ q[5] = <<"propTypeCode", <<"H">> >>
           /\ q[6] = <<"requestType", <<"D", "S", "R">> >>
           /\ q[7] = <<"captchaResponse", <<>> >>
           /\ q[8] = <<"status", <<"n", "o", "R", "e", "c", "a", "p">> >>
           /\ \A s \in Suburbs, st \in States :
                 (SameButCase(s, args.suburb) /\ SameButCase(st, args.state)) =>
                    buildApiUrl(args.token, s, st, args.postcode) = url

\* The URL built for a suburb in mixed case with a space in it, which another
\* spelling of the same names gives too.
C28_Witness ==
    /\ args.suburb = <<"A", "b">> /\ args.state = <<"W", "a">>
    /\ args.postcode = <<"2", " ">>
    /\ url = buildApiUrl(args.token, <<"a", "b">>, <<"w", "a">>, args.postcode)
    /\ url # <<>>

\* C30: a getSession that is served from the cache performs no I/O and has
\* no effect: it opens no browsing context and launches no browser, leaves
\* the state of every login sequence alone, and leaves cachedSession and
\* sessionExpiry unchanged; what it returns is the cached session.
C30_CacheHitFrame ==
    [][\A p \in Procs :
         (GetSessionStarts(p) /\ ServedFromCache(p)) =>
            /\ UNCHANGED <<cachedSession, sessionExpiry>>
            /\ UNCHANGED <<nLogins, openCtx, ctx, accessToken, tried, jar, gsError>>
            /\ UNCHANGED <<brVars, now>>
            /\ session'[p] = cachedSession
      ]_vars

\* C30 witness: a call was served from the cache some time after the store,
\* and the cache and its expiry are as the login left them.
C30_Witness ==
    \E p \in Procs :
        /\ pc[p] = "fetch" /\ fromCache[p]
        /\ session[p] = cachedSession
        /\ acquired.login = cachedSession.login
        /\ sessionExpiry = acquired.at + SESSION_TTL
        /\ now > acquired.at
        /\ openCtx = {}

\* ------------------------------------------------ the frame of a failed login

\* Caller p's getSession ends with a failure in this step.
GetSessionFails(p) ==
    /\ pc[p] \in {"getPage", "close"}
    /\ pc'[p] = "done"

\* The cache is written, not cleared, in this step.
CacheWritten == cacheVars' # cacheVars /\ cachedSession' # NoSession

\* C31 as stated: a getSession call that ends with a failure, whatever the
\* step that failed, has not written the session cache.
C31_FailedCallWritesNothing ==
    [][\A p \in Procs : GetSessionFails(p) => session[p] = NoSession]_vars

\* C31 as amended: the cache is written only by the store of a login sequence
\* that has read JSESSIONID, holds a token and has thrown nothing; a step in
\* which getSession throws inside its try block, or in which getPage rejects,
\* leaves cachedSession and sessionExpiry alone, and the call that threw has
\* stored no session when it ends.
C31_ThrowWritesNothing ==
    [][/\ CacheWritten =>
            \E p \in Procs :
                /\ pc[p] \in {"cookies", "script2"} /\ pc'[p] = "close"
                /\ gsError[p] = "none" /\ gsError'[p] = "none"
                /\ jar'[p] = "present"
                /\ accessToken'[p] # NoToken
                /\ cachedSession' = NewSession(p, accessToken'[p])
                /\ sessionExpiry' = now + SESSION_TTL
       /\ \A p \in Procs :
            /\ (gsError'[p] # "none" /\ gsError[p] = "none")
               => (UNCHANGED cacheVars /\ session'[p] = NoSession)
            /\ (pc[p] = "getPage" /\ pc'[p] = "done") => UNCHANGED cacheVars
            /\ (GetSessionFails(p) /\ gsError[p] # "none")
               => (UNCHANGED cacheVars /\ session[p] = NoSession)
      ]_vars

\* C31 witness: a login sequence threw for a missing cookie while another
\* caller's session, stored meanwhile, is in the cache untouched.
C31_Witness ==
    \E p \in Procs :
        /\ pc[p] = "close" /\ gsError[p] = NoCookieError
        /\ session[p] = NoSession
        /\ cachedSession # NoSession /\ cachedSession.login # ctx[p]
        /\ sessionExpiry = acquired.at + SESSION_TTL


\* ---------------------------------------------- the two cache variables agree

\* C32: in every reachable state, whatever the interleaving of callers,
\* clearSession and the clock, cachedSession is null exactly when
\* sessionExpiry is 0, and a cached session's expiry is the time it was
\* stored plus SESSION_TTL.
C32_CacheConsistent ==
    /\ cachedSession = NoSession <=> sessionExpiry = 0
    /\ cachedSession # NoSession =>
          /\ acquired.login = cachedSession.login
          /\ sessionExpiry = acquired.at + SESSION_TTL

\* C32 witness: a session stored after an invalidation, at a later time than
\* 0, is cached while the other caller is in the middle of a login sequence.
C32_Witness ==
    \E p, q \in Procs :
        /\ p # q
        /\ cachedSession # NoSession /\ cachedSession.login = 2
        /\ acquired.at > 0 /\ now > acquired.at
        /\ reauths[p] = 1
        /\ pc[q] \in {"getPage", "login"} /\ session[q] = NoSession


\* ------------------------------------------- whose session a denial removes

\* Caller p's first request is answered with an authorization denial in this
\* step.
FirstResponseDenied(p) ==
    /\ pc[p] = "fetch" /\ attempt[p] = 1
    /\ Len(statuses'[p]) = Len(statuses[p]) + 1
    /\ statuses'[p][Len(statuses'[p])] \in DeniedStatuses

\* C33: when a caller's request is denied while the cache holds a newer
\* session, acquired by another caller and never rejected, the denial leaves
\* that session in the cache and starts no login.
C33_OnlyRejectedInvalidated ==
    [][\A p \in Procs :
         ( /\ FirstResponseDenied(p)
           /\ cachedSession # NoSession
           /\ cachedSession.login > session[p].login
           /\ ~denied )
         => ( /\ UNCHANGED cacheVars
              /\ ~StartsLogin(p) )
      ]_vars


\* ------------------------------------------------- what the retry is sent with

\* C34: the second request of an invocation, sent after a denial of the
\* first, carries the token and the cookies of the session the forced
\* getSession returned, a session logged in after the denial and other than
\* the rejected one, and the location of the first request; there is no third
\* request.
C34_RetryUsesNewSession ==
    \A p \in Procs :
        /\ Len(sent[p]) <= 2
        /\ Len(sent[p]) = 2 =>
              /\ statuses[p][1] \in DeniedStatuses /\ reauths[p] = 1
              /\ ~fromCache[p]
              /\ sent[p][2].accessToken = session[p].accessToken
              /\ sent[p][2].cookies = session[p].cookies
              /\ sent[p][2].accessToken = sent[p][2].cookies
              /\ sent[p][2].accessToken > sent[p][1].accessToken
              /\ sent[p][2].cookies > sent[p][1].cookies
              /\ sent[p][2].location = sent[p][1].location
              /\ sent[p][2].location = Arguments(p)

\* C34 witness: an invocation whose first request, made with the session of
\* login 1, was denied has sent its retry.
C34_Witness ==
    \E p \in Procs :
        /\ pc[p] = "fetch" /\ Len(sent[p]) = 2
        /\ sent[p][1].accessToken = 1 /\ sent[p][2].accessToken = 2
        /\ statuses[p] \in {<<401>>, <<403>>}


\* ------------------------------------------------- a session is one login's

\* The token and the cookies of session s come from the login sequence, and so
\* the browsing context, that built it.
OneLogin(s) == s.accessToken = s.login /\ s.cookies = s.login

\* C35: the cached session and every session a caller holds pair the token
\* and the cookie jar of one and the same login sequence, and a token a login
\* sequence holds was read in its own context; a session object is never
\* changed after it is built: the cache is only emptied or given the object of
\* another login, whole, and a caller's session only goes with its frame.
C35_SessionImmutable ==
    /\ [](/\ OneLogin(cachedSession)
          /\ \A p \in Procs :
                /\ OneLogin(session[p])
                /\ accessToken[p] # NoToken => accessToken[p].login = ctx[p])
    /\ [][/\ (cachedSession' # cachedSession /\ cachedSession' # NoSession)
             => ( /\ cachedSession'.login # cachedSession.login
                  /\ cachedSession'.accessToken # cachedSession.accessToken
                  /\ cachedSession'.cookies # cachedSession.cookies
                  /\ \E p \in Procs : cachedSession'.login = ctx[p] )
          /\ \A p \in Procs :
                (session'[p] # session[p] /\ session[p] # NoSession)
                => session'[p].login # session[p].login
         ]_vars

\* C35 witness: the session of the second login has replaced the first in the
\* cache while a caller still holds the first, as it was built.
C35_Witness ==
    \E p \in Procs :
        /\ cachedSession = [login |-> 2, accessToken |-> 2, cookies |-> 2]
        /\ session[p] = [login |-> 1, accessToken |-> 1, cookies |-> 1]
        /\ pc[p] = "fetch"
        /\ openCtx # {}


\* ------------------------------------------- scrapeStockOnMarket never throws

\* The messages of the errors that can arise inside scrapeStockOnMarket: of
\* getPage, of the login sequence, of the token capture, of the transport, of
\* the status check and of the payload.
ErrorMessages ==
    {"getPage failed", "login failed", "navigation failed", NoCookieError,
     "Failed to capture access_token", "context.close failed", "fetch failed",
     "DSR API returned 401", "DSR API returned 403", "DSR API returned 500",
     "invalid json", "No stats in DSR response"}

\* {success: true, data}.
IsSuccessValue(r) == r.success /\ r.data = "MarketStats" /\ r.error = "none"

\* {success: false, error}, returned, with the message of the error.
IsFailureValue(r) == ~r.success /\ r.data = "none" /\ r.error \in ErrorMessages

\* Caller p's invocation of scrapeStockOnMarket settles in this step.
Settles(p) == pc[p] # "done" /\ pc'[p] = "done"

\* C36: an invocation of scrapeStockOnMarket always settles with a value:
\* {success: true, data} exactly when an ok response carried stats, else
\* {success: false, error} with the message of what failed, be it getPage,
\* the login, the token capture, the transport, the status check or the
\* payload; it is never rejected.
C36_NeverThrows ==
    /\ [](\A p \in Procs : pc[p] = "done" <=> result[p] # NoResult)
    /\ [][\A p \in Procs :
            Settles(p) =>
               /\ IsSuccessValue(result'[p]) \/ IsFailureValue(result'[p])
               /\ IsSuccessValue(result'[p]) <=> (pc[p] = "json" /\ body'[p] = "stats")
               /\ pc[p] = "getPage" => result'[p] = Failure("getPage failed")
               /\ pc[p] = "close" =>
                     result'[p].error \in {gsError[p], "context.close failed"} \ {"none"}
               /\ pc[p] = "fetch" =>
                     result'[p].error \in {"fetch failed", "DSR API returned 401",
                                          "DSR API returned 403", "DSR API returned 500"}
               /\ (pc[p] = "json" /\ body'[p] # "stats") =>
                     result'[p].error \in {"invalid json", "No stats in DSR response"}
         ]_vars

\* C36 witness: one invocation has returned the failure of a token capture
\* and another the failure of a payload that would not parse.
C36_Witness ==
    \E p, q \in Procs :
        /\ pc[p] = "done" /\ result[p] = Failure("Failed to capture access_token")
        /\ pc[q] = "done" /\ result[q] = Failure("invalid json")


\* ------------------------------------------------------ which tabs are clicked

\* The positions of the tabs whose label contains a known name.
Matching(tabs) ==
    {i \in 1..Len(tabs) : \E name \in {"Valuation", "Rental"} : Includes(tabs[i], name)}

\* C37: in a returned property record only tabs whose label contains
\* "Valuation" or "Rental" have been activated, and every such tab has been
\* activated and read, those that follow a tab that threw included.
C37_EveryMatchingTabRead ==
    (propPc \in {"close", "done"} /\ propRet.state = "returned" /\ propRet.success) =>
        /\ pageHas.activated \subseteq Matching(pageHas.tabs)
        /\ Matching(pageHas.tabs) \ {pageHas.err} \subseteq pageHas.activated


\* ----------------------------------------------------- the post-login wait

\* The least of a set of times.
Earliest(S) == CHOOSE t \in S : \A u \in S : t <= u

C39_TokenIsUuid == capture.pc = "stored" => IsUuid(capture.token.value)


\* ------------------------------------- what the vacancy scraper leaves open

\* A browser passed in by the caller is as open as it was.
CallerBrowserKept(r) == sqmCall[r].callerOpen = sqmCall[r].existingBrowser

\* A browser the function launched is closed.
OwnBrowserClosed(r) == ~sqmCall[r].ownOpen

\* The context the function opened, if it opened one, is closed.
ContextClosed(r) == sqmCall[r].context # "open"

\* C40: scrapeSqmVacancy never closes a browser passed in by its caller, and
\* when it returns, with a rate, without one or with a failure, a browser it
\* launched itself is closed and so is the context it opened.
C40_SqmReleasesWhatItOpened ==
    \A r \in Procs :
       /\ CallerBrowserKept(r)
       /\ sqmCall[r].pc = "done" => OwnBrowserClosed(r) /\ ContextClosed(r)


====
